---- MODULE Spec2Model ----
(***************************************************************************)
(* A model of the fs-sim storage engine (src/file_system.py), its on-disk  *)
(* structures (src/structures.py) and its block store                      *)
(* (src/disk_emulator.py).                                                 *)
(*                                                                         *)
(* Sizes are scaled down so that the state space is finite and small; the  *)
(* relations between them that the code relies on are kept:                *)
(*   - a block holds POINTERS_PER_BLOCK little-endian pointers of          *)
(*     U32_BYTES bytes each (BLOCK_SIZE = POINTERS_PER_BLOCK * U32_BYTES); *)
(*   - a directory entry is a NAME_FIELD-byte zero-padded name             *)
(*     (MAX_FILENAME + 1 bytes), an inode number and a padding, and        *)
(*     ENTRY_SIZE does not divide BLOCK_SIZE, so some entries straddle two *)
(*     blocks while several entries fit into one block;                    *)
(*   - an inode has POINTERS_PER_INODE direct pointers and one indirect.   *)
(* The inode table is kept as a table of decoded inode records: the code   *)
(* reaches it only through _load_inode/_save_inode, and block allocation   *)
(* never hands out a block of the metadata region.  Timestamps are left    *)
(* out: no modelled operation reads them.                                  *)
(***************************************************************************)
EXTENDS Integers, Sequences, FiniteSets, TLC

\* ---------------------------------------------------------------- constants
BLOCK_SIZE == 16
MAGIC_NUMBER == 13328
POINTERS_PER_INODE == 2
POINTERS_PER_BLOCK == 8
INODES_PER_BLOCK == 4
MAX_FILENAME == 2
NAME_FIELD == 3
U32_BYTES == 2
BYTE_BASE == 256
U32_MAX == 65535
ENTRY_PAD == 2
ENTRY_SIZE == NAME_FIELD + U32_BYTES + ENTRY_PAD
TYPE_FILE == 0
TYPE_DIR == 1

\* ------------------------------------------------------------------- bounds
\* The sizes (in blocks) of the devices the engine is run on.
SmallDisk == 4
LargeDisk == 6
\* The number of operations of one run.
MaxOps == 5
\* The longest name given to DirEntry.
MaxNameLen == 3
\* The largest device of the layout check.
MaxBlocks == 31

DiskSizes == {SmallDisk, LargeDisk}

\* Names: sequences of bytes ("a", "b", "c", ".", "..", "/").
NameA == <<97>>
NameB == <<98>>
NameC == <<99>>
DOT == <<46>>
DOTDOT == <<46, 46>>
SLASH == <<47>>
NewNames == {NameA, NameB, NameC}
CdPaths == {NameA, NameB, DOT, DOTDOT, SLASH}

MAX_FILE_SIZE == (POINTERS_PER_INODE + POINTERS_PER_BLOCK) * BLOCK_SIZE

\* ------------------------------------------------------------------ helpers
Max2(a, b) == IF a >= b THEN a ELSE b
Min2(a, b) == IF a <= b THEN a ELSE b
SetMin(S) == CHOOSE x \in S : \A y \in S : x <= y
Zeros(n) == [j \in 1..n |-> 0]
ZeroBlock == Zeros(BLOCK_SIZE)
\* s[a:b] of Python, 0-based, for 0 <= a <= b <= Len(s).
Slice(s, a, b) == [j \in 1..(b - a) |-> s[a + j]]
\* s[a:a+Len(r)] = r of Python on a bytearray.
Splice(s, a, r) ==
    [j \in 1..Len(s) |-> IF j > a /\ j <= a + Len(r) THEN r[j - a] ELSE s[j]]

\* struct.unpack('<I', s) reading the bytes in big-endian order.
UnpackU32BigEndian(s) == s[2] + BYTE_BASE * s[1]

\* struct.pack('<I', v) / struct.unpack('<I', s): little-endian, fixed width.
U32Ok(v) == v >= 0 /\ v <= U32_MAX
PackU32(v) == [j \in 1..U32_BYTES |-> IF j = 1 THEN v % BYTE_BASE ELSE v \div BYTE_BASE]
UnpackU32(s) == s[1] + BYTE_BASE * s[2]

\* ------------------------------------------------------------ structures.py
NewInode ==
    [valid |-> 0, inode_type |-> TYPE_FILE, size |-> 0,
     direct |-> Zeros(POINTERS_PER_INODE), indirect |-> 0]

\* Inode.pack raises struct.error when a field is not an unsigned 32-bit value.
InodePackOk(inode) ==
    /\ U32Ok(inode.valid) /\ U32Ok(inode.inode_type) /\ U32Ok(inode.size)
    /\ \A k \in 1..POINTERS_PER_INODE : U32Ok(inode.direct[k])
    /\ U32Ok(inode.indirect)

ZeroSuperBlock ==
    [magic_number |-> 0, blocks |-> 0, inode_blocks |-> 0, inodes |-> 0, root_inode |-> 0]

\* bytes.rstrip(b'\x00')
RECURSIVE RStripZeros(_)
RStripZeros(s) ==
    IF Len(s) > 0 /\ s[Len(s)] = 0 THEN RStripZeros(SubSeq(s, 1, Len(s) - 1)) ELSE s

\* DirEntry.__init__ truncates the name; DirEntry.pack pads it and appends the
\* inode number and the padding.
DirEntryName(name) == SubSeq(name, 1, Min2(Len(name), MAX_FILENAME))
DirEntryPack(name, inode_num) ==
    LET n == DirEntryName(name)
    IN  [j \in 1..NAME_FIELD |-> IF j <= Len(n) THEN n[j] ELSE 0]
            \o PackU32(inode_num) \o Zeros(ENTRY_PAD)
\* DirEntry.unpack of one whole record.
DirEntryUnpack(rec) ==
    [name |-> DirEntryName(RStripZeros(SubSeq(rec, 1, NAME_FIELD))),
     inode_num |-> UnpackU32(SubSeq(rec, NAME_FIELD + 1, NAME_FIELD + U32_BYTES))]

\* The pointers of an indirect block: struct.unpack('<' + 'I' * POINTERS_PER_BLOCK).
Pointers(block) ==
    [k \in 1..POINTERS_PER_BLOCK |->
        UnpackU32(SubSeq(block, (k - 1) * U32_BYTES + 1, k * U32_BYTES))]
\* struct.pack_into('<I', block, idx * 4, v)
PackInto(block, idx, v) == Splice(block, idx * U32_BYTES, PackU32(v))

VARIABLES
    nblocks,            \* DiskEmulator.blocks
    disk_sb,            \* the image: block 0, decoded
    itable,             \* the image: the inode table blocks, decoded
    data,               \* the image: every block's bytes (data region used)
    disk_bound,         \* FileSystem.disk is not None
    mounted,            \* FileSystem.mounted
    superblock,         \* FileSystem.superblock (in memory)
    free_blocks,        \* FileSystem.free_blocks
    current_dir_inode,  \* FileSystem.current_dir_inode
    last,               \* the last operation, its arguments and its result
    nops                \* operations done so far

image == <<disk_sb, itable, data>>
engine == <<disk_bound, mounted, superblock, free_blocks, current_dir_inode>>
vars == <<nblocks, disk_sb, itable, data, disk_bound, mounted, superblock,
          free_blocks, current_dir_inode, last, nops>>

\* ---------------------------------------------------------- disk_emulator.py
BlockInRange(b) == b >= 0 /\ b < nblocks

\* ------------------------------------------------------------ file_system.py
\* The layout arithmetic rounding the tenth of the device down.
FormatInodeBlocksFloor(blocks) == Max2(1, blocks \div 10)

\* format's layout arithmetic.
FormatInodeBlocks(blocks) == Max2(1, (blocks + 9) \div 10)
FormatInodes(blocks) == FormatInodeBlocks(blocks) * INODES_PER_BLOCK

\* _load_inode returns None for a number outside the table.
InodeInRange(sb, n) == n >= 0 /\ n < sb.inodes
\* "inode and inode.valid"
InodeLive(sb, it, n) == InodeInRange(sb, n) /\ it[n].valid # 0

\* _allocate_inode returning the highest free slot instead of the lowest.
AllocateInodeHighest(sb, it) ==
    LET cand == {i \in 0..(sb.inodes - 1) : it[i].valid = 0}
    IN  IF cand = {} THEN -1 ELSE 0 - SetMin({0 - i : i \in cand})

\* _allocate_inode: the first slot that is not valid, or -1.
AllocateInode(sb, it) ==
    LET cand == {i \in 0..(sb.inodes - 1) : it[i].valid = 0}
    IN  IF cand = {} THEN -1 ELSE SetMin(cand)

\* _allocate_block scanning from block 0 instead of the first data block.
AllocateBlockFromZero(sb, free) ==
    LET cand == {i \in 0..(sb.blocks - 1) : i < Len(free) /\ free[i + 1]}
    IN  IF cand = {} THEN [blk |-> -1, free |-> free]
        ELSE [blk |-> SetMin(cand), free |-> [free EXCEPT ![SetMin(cand) + 1] = FALSE]]

\* _allocate_block without the mark: the block found stays free in the map.
AllocateBlockUnmarked(sb, free) ==
    LET cand == {i \in (sb.inode_blocks + 1)..(sb.blocks - 1) :
                    i < Len(free) /\ free[i + 1]}
    IN  IF cand = {} THEN [blk |-> -1, free |-> free]
        ELSE [blk |-> SetMin(cand), free |-> free]

\* _allocate_block: [blk, free]; blk = -1 when no data block is free.
AllocateBlock(sb, free) ==
    LET cand == {i \in (sb.inode_blocks + 1)..(sb.blocks - 1) :
                    i < Len(free) /\ free[i + 1]}
    IN  IF cand = {} THEN [blk |-> -1, free |-> free]
        ELSE [blk |-> SetMin(cand), free |-> [free EXCEPT ![SetMin(cand) + 1] = FALSE]]

\* _free_block
FreeBlock(free, b) ==
    IF b >= 0 /\ b < Len(free) THEN [free EXCEPT ![b + 1] = TRUE] ELSE free

\* _get_block_pointer that never reads the indirect block.
GetBlockPointerDirectOnly(dt, inode, block_index) ==
    IF block_index < POINTERS_PER_INODE THEN inode.direct[block_index + 1]
    ELSE 0

\* _get_block_pointer
GetBlockPointer(dt, inode, block_index) ==
    IF block_index < POINTERS_PER_INODE THEN inode.direct[block_index + 1]
    ELSE IF inode.indirect = 0 THEN 0
    ELSE IF ~BlockInRange(inode.indirect) THEN 0
    ELSE IF block_index - POINTERS_PER_INODE >= POINTERS_PER_BLOCK THEN 0
    ELSE Pointers(dt[inode.indirect])[block_index - POINTERS_PER_INODE + 1]

\* DiskEmulator.write of one whole block; out of range it writes nothing.
DiskWrite(dt, b, bytes) == IF BlockInRange(b) THEN [dt EXCEPT ![b] = bytes] ELSE dt

\* SetIndirectPointer without the check of the indirect block's capacity.
SetIndirectPointerNoLimit(dt, inode, block_index, block_num, a) ==
    IF a.blk < 0
    THEN [ok |-> FALSE, raised |-> FALSE, inode |-> [inode EXCEPT !.indirect = a.blk],
          free |-> a.free, data |-> dt]
    ELSE [ok |-> TRUE, raised |-> FALSE, inode |-> [inode EXCEPT !.indirect = a.blk],
          free |-> a.free,
          data |-> [dt EXCEPT ![a.blk] =
                       PackInto(IF inode.indirect = 0 THEN ZeroBlock ELSE @,
                                block_index - POINTERS_PER_INODE, block_num)]]

\* SetIndirectPointer that writes the pointer into a cleared block every time,
\* not only when the indirect block is new.
SetIndirectPointerCleared(dt, inode, block_index, block_num, a) ==
    IF a.blk < 0
    THEN [ok |-> FALSE, raised |-> FALSE, inode |-> [inode EXCEPT !.indirect = a.blk],
          free |-> a.free, data |-> dt]
    ELSE IF ~BlockInRange(a.blk)
    THEN [ok |-> FALSE, raised |-> TRUE, inode |-> [inode EXCEPT !.indirect = a.blk],
          free |-> a.free, data |-> dt]
    ELSE IF block_index - POINTERS_PER_INODE >= POINTERS_PER_BLOCK
    THEN [ok |-> FALSE, raised |-> FALSE, inode |-> [inode EXCEPT !.indirect = a.blk],
          free |-> a.free,
          data |-> IF inode.indirect = 0 THEN [dt EXCEPT ![a.blk] = ZeroBlock] ELSE dt]
    ELSE [ok |-> TRUE, raised |-> FALSE, inode |-> [inode EXCEPT !.indirect = a.blk],
          free |-> a.free,
          data |-> [dt EXCEPT ![a.blk] =
                       PackInto(ZeroBlock, block_index - POINTERS_PER_INODE, block_num)]]

\* _set_block_pointer beyond the direct range, a being the indirect block:
\* the inode's own, or what _allocate_block returned for it ([blk, free]).
SetIndirectPointer(dt, inode, block_index, block_num, a) ==
    IF a.blk < 0
    THEN [ok |-> FALSE, raised |-> FALSE, inode |-> [inode EXCEPT !.indirect = a.blk],
          free |-> a.free, data |-> dt]
    ELSE IF ~BlockInRange(a.blk)
    THEN [ok |-> FALSE, raised |-> TRUE, inode |-> [inode EXCEPT !.indirect = a.blk],
          free |-> a.free, data |-> dt]
    ELSE IF block_index - POINTERS_PER_INODE >= POINTERS_PER_BLOCK
    THEN [ok |-> FALSE, raised |-> FALSE, inode |-> [inode EXCEPT !.indirect = a.blk],
          free |-> a.free,
          data |-> IF inode.indirect = 0 THEN [dt EXCEPT ![a.blk] = ZeroBlock] ELSE dt]
    ELSE [ok |-> TRUE, raised |-> FALSE, inode |-> [inode EXCEPT !.indirect = a.blk],
          free |-> a.free,
          data |-> [dt EXCEPT ![a.blk] =
                       PackInto(IF inode.indirect = 0 THEN ZeroBlock ELSE @,
                                block_index - POINTERS_PER_INODE, block_num)]]

\* _set_block_pointer: [ok, raised, inode, free, data].  The in-memory inode
\* keeps what _allocate_block returned, -1 included.
SetBlockPointer(free, dt, inode, block_index, block_num) ==
    IF block_index < POINTERS_PER_INODE
    THEN [ok |-> TRUE, raised |-> FALSE,
          inode |-> [inode EXCEPT !.direct[block_index + 1] = block_num],
          free |-> free, data |-> dt]
    ELSE SetIndirectPointer(dt, inode, block_index, block_num,
                            IF inode.indirect = 0 THEN AllocateBlock(superblock, free)
                            ELSE [blk |-> inode.indirect, free |-> free])

\* The loop of write.  w = [inode, free, data, written, raised].
RECURSIVE WriteLoop(_, _, _)

\* WriteBlock with the offset inside the block taken from the call's offset
\* alone, not from the bytes written so far.
WriteBlockStaleOffset(w, d, offset, block_num) ==
    LET block_offset == offset % BLOCK_SIZE
        n == Min2(BLOCK_SIZE - block_offset, Len(d) - w.written)
    IN  IF ~BlockInRange(block_num) THEN w
        ELSE WriteLoop([w EXCEPT !.data[block_num] =
                                     Splice(@, block_offset,
                                            Slice(d, w.written, w.written + n)),
                                 !.written = @ + n], d, offset)

\* WriteBlock without the read of the block's current content: the bytes
\* around the written range are cleared.
WriteBlockNoReadBack(w, d, offset, block_num) ==
    LET block_offset == (offset + w.written) % BLOCK_SIZE
        n == Min2(BLOCK_SIZE - block_offset, Len(d) - w.written)
    IN  IF ~BlockInRange(block_num) THEN w
        ELSE WriteLoop([w EXCEPT !.data[block_num] =
                                     Splice(ZeroBlock, block_offset,
                                            Slice(d, w.written, w.written + n)),
                                 !.written = @ + n], d, offset)

\* One block of the loop of write: read-modify-write of block_num.
WriteBlock(w, d, offset, block_num) ==
    LET block_offset == (offset + w.written) % BLOCK_SIZE
        partial == block_offset # 0 \/ (Len(d) - w.written) < BLOCK_SIZE
        n == Min2(BLOCK_SIZE - block_offset, Len(d) - w.written)
    IN  IF ~BlockInRange(block_num) THEN w
        ELSE WriteLoop([w EXCEPT !.data[block_num] =
                                     Splice(IF partial THEN @ ELSE ZeroBlock, block_offset,
                                            Slice(d, w.written, w.written + n)),
                                 !.written = @ + n], d, offset)

\* The loop of write after _set_block_pointer returned s for the new block.
WritePointed(w, d, offset, blk, s) ==
    IF s.raised
    THEN [w EXCEPT !.inode = s.inode, !.free = s.free, !.data = s.data, !.raised = TRUE]
    ELSE IF ~s.ok
    THEN [w EXCEPT !.inode = s.inode, !.free = FreeBlock(s.free, blk), !.data = s.data]
    ELSE WriteBlock([w EXCEPT !.inode = s.inode, !.free = s.free, !.data = s.data],
                    d, offset, blk)

\* The loop of write after _allocate_block returned a for an unallocated block.
WriteAllocated(w, d, offset, a) ==
    IF a.blk < 0 THEN w
    ELSE WritePointed(w, d, offset, a.blk,
                      SetBlockPointer(a.free, w.data, w.inode,
                                      (offset + w.written) \div BLOCK_SIZE, a.blk))

\* The loop of write after _get_block_pointer returned found.
WriteResolved(w, d, offset, found) ==
    IF found # 0 THEN WriteBlock(w, d, offset, found)
    ELSE WriteAllocated(w, d, offset, AllocateBlock(superblock, w.free))

WriteLoop(w, d, offset) ==
    IF w.written >= Len(d) THEN w
    ELSE WriteResolved(w, d, offset,
                       GetBlockPointer(w.data, w.inode, (offset + w.written) \div BLOCK_SIZE))

\* WriteSave that sets the size to the end of this write, whatever it was.
WriteSaveEnd(st, inode_num, offset, w) ==
    IF w.raised \/ ~InodePackOk([w.inode EXCEPT !.size = offset + w.written])
    THEN [itable |-> st.itable, data |-> w.data, free |-> w.free,
          ret |-> -1, raised |-> TRUE]
    ELSE [itable |-> [st.itable EXCEPT ![inode_num] =
                         [w.inode EXCEPT !.size = offset + w.written]],
          data |-> w.data, free |-> w.free, ret |-> w.written, raised |-> FALSE]

\* The end of write: the size, and the inode saved (Inode.pack raises on a
\* field that is no unsigned 32-bit value, and nothing is saved then).
WriteSave(st, inode_num, offset, w) ==
    IF w.raised \/ ~InodePackOk([w.inode EXCEPT !.size = Max2(@, offset + w.written)])
    THEN [itable |-> st.itable, data |-> w.data, free |-> w.free,
          ret |-> -1, raised |-> TRUE]
    ELSE [itable |-> [st.itable EXCEPT ![inode_num] =
                         [w.inode EXCEPT !.size = Max2(@, offset + w.written)]],
          data |-> w.data, free |-> w.free, ret |-> w.written, raised |-> FALSE]

\* write on a mounted engine.  st = [itable, data, free]; the result adds
\* ret (bytes written, -1 for an invalid inode) and raised (the call ended in
\* an exception).
WriteFile(st, inode_num, d, offset) ==
    IF ~InodeLive(superblock, st.itable, inode_num)
    THEN [itable |-> st.itable, data |-> st.data, free |-> st.free,
          ret |-> -1, raised |-> FALSE]
    ELSE WriteSave(st, inode_num, offset,
                   WriteLoop([inode |-> st.itable[inode_num], free |-> st.free,
                              data |-> st.data, written |-> 0, raised |-> FALSE],
                             d, offset))

\* The loop of read.
RECURSIVE ReadLoop(_, _, _, _, _)

ReadResolved(dt, inode, offset, length, acc, block_num) ==
    LET block_offset == (offset + Len(acc)) % BLOCK_SIZE
        n == Min2(BLOCK_SIZE - block_offset, length - Len(acc))
    IN  IF block_num = 0 \/ ~BlockInRange(block_num) THEN acc
        ELSE ReadLoop(dt, inode, offset, length,
                      acc \o Slice(dt[block_num], block_offset, block_offset + n))

ReadLoop(dt, inode, offset, length, acc) ==
    IF Len(acc) >= length THEN acc
    ELSE ReadResolved(dt, inode, offset, length, acc,
                      GetBlockPointer(dt, inode, (offset + Len(acc)) \div BLOCK_SIZE))

\* ReadFile that takes the requested length without regard to the size.
ReadFileUnclamped(it, dt, inode_num, length, offset) ==
    IF ~InodeLive(superblock, it, inode_num) THEN [none |-> TRUE, bytes |-> <<>>]
    ELSE [none |-> FALSE, bytes |-> ReadLoop(dt, it[inode_num], offset, length, <<>>)]

\* read on a mounted engine: [none, bytes]; none stands for Python's None.
ReadFile(it, dt, inode_num, length, offset) ==
    IF ~InodeLive(superblock, it, inode_num) THEN [none |-> TRUE, bytes |-> <<>>]
    ELSE IF offset >= it[inode_num].size THEN [none |-> FALSE, bytes |-> <<>>]
    ELSE [none |-> FALSE,
          bytes |-> ReadLoop(dt, it[inode_num], offset,
                             Min2(length, it[inode_num].size - offset), <<>>)]

\* The whole records of a directory's byte stream, decoded in order.
DirRecords(bytes) ==
    [k \in 1..(Len(bytes) \div ENTRY_SIZE) |->
        DirEntryUnpack(Slice(bytes, (k - 1) * ENTRY_SIZE, k * ENTRY_SIZE))]

\* The scan of _find_dir_entry returning the last record named name.
LastNamed(recs, name) ==
    IF \A k \in 1..Len(recs) : recs[k].name # name THEN -1
    ELSE recs[0 - SetMin({0 - k : k \in {m \in 1..Len(recs) : recs[m].name = name}})].inode_num

\* The scan of _find_dir_entry: the first record named name.
FirstNamed(recs, name) ==
    IF \A k \in 1..Len(recs) : recs[k].name # name THEN -1
    ELSE recs[SetMin({k \in 1..Len(recs) : recs[k].name = name})].inode_num

\* FindDirEntry that skips the records of inodes that are not valid.
FindDirEntryLive(it, dt, dir_inode_num, name) ==
    IF ~InodeLive(superblock, it, dir_inode_num) \/ it[dir_inode_num].size = 0 THEN -1
    ELSE FirstNamed(
            SelectSeq(
                DirRecords(ReadFile(it, dt, dir_inode_num, it[dir_inode_num].size, 0).bytes),
                LAMBDA e : InodeLive(superblock, it, e.inode_num)),
            name)

\* _find_dir_entry: the inode number of the first record named name, or -1.
FindDirEntry(it, dt, dir_inode_num, name) ==
    IF ~InodeLive(superblock, it, dir_inode_num) \/ it[dir_inode_num].size = 0 THEN -1
    ELSE FirstNamed(
            DirRecords(ReadFile(it, dt, dir_inode_num, it[dir_inode_num].size, 0).bytes),
            name)

\* The end of _add_dir_entry: the whole record was written.
EntryAdded(w) ==
    [itable |-> w.itable, data |-> w.data, free |-> w.free,
     ok |-> (~w.raised /\ w.ret = ENTRY_SIZE), raised |-> w.raised]

\* _add_dir_entry: [itable, data, free, ok, raised].
AddDirEntry(st, dir_inode_num, name, inode_num) ==
    IF ~InodeLive(superblock, st.itable, dir_inode_num)
    THEN [itable |-> st.itable, data |-> st.data, free |-> st.free,
          ok |-> FALSE, raised |-> FALSE]
    ELSE EntryAdded(WriteFile(st, dir_inode_num, DirEntryPack(name, inode_num),
                              st.itable[dir_inode_num].size))

\* OwnedBlocks without the indirect block and the blocks behind it.
OwnedBlocksDirectOnly(dt, inode) ==
    {inode.direct[k] : k \in 1..POINTERS_PER_INODE} \ {0}

\* The blocks remove_file hands to _free_block for an inode.
OwnedBlocks(dt, inode) ==
    LET direct == {inode.direct[k] : k \in 1..POINTERS_PER_INODE} \ {0}
        pointed == IF inode.indirect # 0 /\ BlockInRange(inode.indirect)
                   THEN {Pointers(dt[inode.indirect])[k] : k \in 1..POINTERS_PER_BLOCK} \ {0}
                   ELSE {}
        indirect == IF inode.indirect # 0 THEN {inode.indirect} ELSE {}
    IN  direct \cup pointed \cup indirect

FreeAll(free, S) ==
    [j \in 1..Len(free) |-> free[j] \/ (j - 1) \in S]

\* RemoveInode that also drops the entries of the current directory.
RemoveInodeUnlinking(st, inode_num) ==
    IF ~InodeLive(superblock, st.itable, inode_num)
    THEN [itable |-> st.itable, data |-> st.data, free |-> st.free, ok |-> FALSE]
    ELSE [itable |-> [st.itable EXCEPT ![inode_num].valid = 0,
                                       ![current_dir_inode].size = 0],
          data |-> st.data,
          free |-> FreeAll(st.free, OwnedBlocks(st.data, st.itable[inode_num])),
          ok |-> TRUE]

\* remove_file on a mounted engine: [itable, data, free, ok].
RemoveInode(st, inode_num) ==
    IF ~InodeLive(superblock, st.itable, inode_num)
    THEN [itable |-> st.itable, data |-> st.data, free |-> st.free, ok |-> FALSE]
    ELSE [itable |-> [st.itable EXCEPT ![inode_num].valid = 0], data |-> st.data,
          free |-> FreeAll(st.free, OwnedBlocks(st.data, st.itable[inode_num])),
          ok |-> TRUE]

\* The tuples ls returns for the records it keeps.
LsTuples(it, kept) ==
    [k \in 1..Len(kept) |->
        <<kept[k].name, kept[k].inode_num, it[kept[k].inode_num].inode_type,
          it[kept[k].inode_num].size>>]

\* LsKept without the check of the target inode's valid flag.
LsKeptAll(it, recs) ==
    LET Listed(e) == e.name # <<>> /\ e.inode_num < superblock.inodes
    IN  SelectSeq(recs, Listed)

\* The records ls keeps: named, and of a valid inode.
LsKept(it, recs) ==
    LET Listed(e) == /\ e.name # <<>>
                     /\ e.inode_num < superblock.inodes
                     /\ InodeLive(superblock, it, e.inode_num)
    IN  SelectSeq(recs, Listed)

\* ls of a directory: the tuples (name, inode, type, size) of the records whose
\* target inode is valid.
LsOf(it, dt, dir_inode_num) ==
    IF ~InodeLive(superblock, it, dir_inode_num) \/ it[dir_inode_num].size = 0 THEN <<>>
    ELSE LsTuples(it, LsKept(it,
            DirRecords(ReadFile(it, dt, dir_inode_num, it[dir_inode_num].size, 0).bytes)))

\* _build_free_block_map without the check of the inode's valid flag.
BuildFreeBlockMapAllSlots(sb, it, dt) ==
    LET Ref(b) == b > 0 /\ b < sb.blocks
        meta == {i \in 0..sb.inode_blocks : i < sb.blocks}
        RefsOf(inode) ==
            {inode.direct[k] : k \in 1..POINTERS_PER_INODE}
            \cup (IF Ref(inode.indirect)
                  THEN {inode.indirect}
                       \cup (IF BlockInRange(inode.indirect)
                             THEN {Pointers(dt[inode.indirect])[k] : k \in 1..POINTERS_PER_BLOCK}
                             ELSE {})
                  ELSE {})
        refs == UNION {RefsOf(it[i]) : i \in 0..(sb.inodes - 1)}
        used == meta \cup {b \in refs : Ref(b)}
    IN  [j \in 1..sb.blocks |-> (j - 1) \notin used]

\* _build_free_block_map
BuildFreeBlockMap(sb, it, dt) ==
    LET Ref(b) == b > 0 /\ b < sb.blocks
        meta == {i \in 0..sb.inode_blocks : i < sb.blocks}
        RefsOf(inode) ==
            {inode.direct[k] : k \in 1..POINTERS_PER_INODE}
            \cup (IF Ref(inode.indirect)
                  THEN {inode.indirect}
                       \cup (IF BlockInRange(inode.indirect)
                             THEN {Pointers(dt[inode.indirect])[k] :
                                      k \in 1..POINTERS_PER_BLOCK}
                             ELSE {})
                  ELSE {})
        refs == UNION {RefsOf(it[i]) : i \in {j \in 0..(sb.inodes - 1) : it[j].valid # 0}}
        used == meta \cup {b \in refs : Ref(b)}
    IN  [j \in 1..sb.blocks |-> (j - 1) \notin used]

\* ------------------------------------------------------------------ inputs
\* The bytes of a write of len bytes at offset: non-zero, and different for
\* different offsets at the same file position.
DataFor(offset, len) == [j \in 1..len |-> 1 + ((7 * offset + j) % 250)]
\* <<offset, length>> of the writes: two blocks from the start; inside the
\* first block; inside the last direct block, leaving a hole below it; across
\* the last direct block into the first indirect slot; the end of the last
\* indirect slot; across the maximum file size; at it; beyond it.
WriteShapes ==
    {<<0, BLOCK_SIZE + 1>>, <<3, 2>>,
     <<POINTERS_PER_INODE * BLOCK_SIZE - 3, 2>>,
     <<POINTERS_PER_INODE * BLOCK_SIZE - 1, 2>>,
     <<MAX_FILE_SIZE - 2, 2>>, <<MAX_FILE_SIZE - 1, 3>>, <<MAX_FILE_SIZE, 1>>,
     <<MAX_FILE_SIZE + 1, 1>>}
\* <<offset, length>> of the reads.
ReadShapes ==
    {<<0, BLOCK_SIZE + 1>>, <<POINTERS_PER_INODE * BLOCK_SIZE - 1, 2>>}
\* Inode numbers given to the operations: every slot, and one past the table.
InodeArgs == 0..FormatInodes(nblocks)

\* ----------------------------------------------------------------- actions
NoLast ==
    [op |-> "none", name |-> <<>>, inode |-> -1, offset |-> 0, length |-> 0,
     data |-> <<>>, ret |-> 0, out |-> <<>>, none |-> FALSE, raised |-> FALSE,
     notified |-> FALSE]

Init ==
    /\ nblocks \in DiskSizes
    /\ disk_sb = ZeroSuperBlock
    /\ itable = [i \in 0..(FormatInodes(nblocks) - 1) |-> NewInode]
    /\ data = [b \in 0..(nblocks - 1) |-> ZeroBlock]
    /\ disk_bound = FALSE
    /\ mounted = FALSE
    /\ superblock = [ZeroSuperBlock EXCEPT !.magic_number = MAGIC_NUMBER]
    /\ free_blocks = <<>>
    /\ current_dir_inode = 0
    /\ last = NoLast
    /\ nops = 0

Step == nops < MaxOps /\ nops' = nops + 1 /\ UNCHANGED nblocks
State == [itable |-> itable, data |-> data, free |-> free_blocks]

\* format(disk) without the check of the mount state.
FormatAlways ==
    /\ Step
    /\ LET sb == [magic_number |-> MAGIC_NUMBER, blocks |-> nblocks,
                  inode_blocks |-> FormatInodeBlocks(nblocks),
                  inodes |-> FormatInodes(nblocks), root_inode |-> 0]
           root == [NewInode EXCEPT !.valid = 1, !.inode_type = TYPE_DIR]
       IN  /\ superblock' = sb
           /\ disk_sb' = sb
           /\ itable' = [i \in DOMAIN itable |-> IF i = 0 THEN root ELSE NewInode]
           /\ UNCHANGED <<data, disk_bound, mounted, free_blocks, current_dir_inode>>
           /\ last' = [NoLast EXCEPT !.op = "format", !.ret = 1]

\* format(disk)
\* format() without the zero fill of the inode table blocks.
FormatKeepsInodeTable ==
    /\ Step
    /\ IF mounted
       THEN /\ UNCHANGED <<image, engine>>
            /\ last' = [NoLast EXCEPT !.op = "format", !.ret = 0]
       ELSE LET sb == [magic_number |-> MAGIC_NUMBER, blocks |-> nblocks,
                       inode_blocks |-> FormatInodeBlocks(nblocks),
                       inodes |-> FormatInodes(nblocks), root_inode |-> 0]
                root == [NewInode EXCEPT !.valid = 1, !.inode_type = TYPE_DIR]
            IN  /\ superblock' = sb
                /\ disk_sb' = sb
                /\ itable' = [itable EXCEPT ![0] = root]
                /\ UNCHANGED <<data, disk_bound, mounted, free_blocks, current_dir_inode>>
                /\ last' = [NoLast EXCEPT !.op = "format", !.ret = 1]

Format ==
    /\ Step
    /\ IF mounted
       THEN /\ UNCHANGED <<image, engine>>
            /\ last' = [NoLast EXCEPT !.op = "format", !.ret = 0]
       ELSE LET sb == [magic_number |-> MAGIC_NUMBER, blocks |-> nblocks,
                       inode_blocks |-> FormatInodeBlocks(nblocks),
                       inodes |-> FormatInodes(nblocks), root_inode |-> 0]
                root == [NewInode EXCEPT !.valid = 1, !.inode_type = TYPE_DIR]
            IN  /\ superblock' = sb
                /\ disk_sb' = sb
                /\ itable' = [i \in DOMAIN itable |-> IF i = 0 THEN root ELSE NewInode]
                /\ UNCHANGED <<data, disk_bound, mounted, free_blocks, current_dir_inode>>
                /\ last' = [NoLast EXCEPT !.op = "format", !.ret = 1]

\* mount(disk) without the check of the mount state.
MountAgain ==
    /\ Step
    /\ IF disk_sb.magic_number # MAGIC_NUMBER
       THEN /\ superblock' = disk_sb
            /\ UNCHANGED <<image, disk_bound, mounted, free_blocks, current_dir_inode>>
            /\ last' = [NoLast EXCEPT !.op = "mount", !.ret = 0]
       ELSE /\ superblock' = disk_sb
            /\ disk_bound' = TRUE
            /\ mounted' = TRUE
            /\ current_dir_inode' = disk_sb.root_inode
            /\ free_blocks' = BuildFreeBlockMap(disk_sb, itable, data)
            /\ UNCHANGED image
            /\ last' = [NoLast EXCEPT !.op = "mount", !.ret = 1]

\* mount(disk) without the check of the magic number.
MountAnyImage ==
    /\ Step
    /\ IF mounted
       THEN /\ UNCHANGED <<image, engine>>
            /\ last' = [NoLast EXCEPT !.op = "mount", !.ret = 0]
       ELSE /\ superblock' = disk_sb
            /\ disk_bound' = TRUE
            /\ mounted' = TRUE
            /\ current_dir_inode' = disk_sb.root_inode
            /\ free_blocks' = BuildFreeBlockMap(disk_sb, itable, data)
            /\ UNCHANGED image
            /\ last' = [NoLast EXCEPT !.op = "mount", !.ret = 1]

\* mount(disk) without the reset of the current directory.
MountKeepsDirectory ==
    /\ Step
    /\ IF mounted
       THEN /\ UNCHANGED <<image, engine>>
            /\ last' = [NoLast EXCEPT !.op = "mount", !.ret = 0]
       ELSE IF disk_sb.magic_number # MAGIC_NUMBER
       THEN /\ superblock' = disk_sb
            /\ UNCHANGED <<image, disk_bound, mounted, free_blocks, current_dir_inode>>
            /\ last' = [NoLast EXCEPT !.op = "mount", !.ret = 0]
       ELSE /\ superblock' = disk_sb
            /\ disk_bound' = TRUE
            /\ mounted' = TRUE
            /\ free_blocks' = BuildFreeBlockMap(disk_sb, itable, data)
            /\ UNCHANGED <<image, current_dir_inode>>
            /\ last' = [NoLast EXCEPT !.op = "mount", !.ret = 1, !.notified = TRUE]

\* mount(disk)
Mount ==
    /\ Step
    /\ IF mounted
       THEN /\ UNCHANGED <<image, engine>>
            /\ last' = [NoLast EXCEPT !.op = "mount", !.ret = 0]
       ELSE IF disk_sb.magic_number # MAGIC_NUMBER
       THEN /\ superblock' = disk_sb
            /\ UNCHANGED <<image, disk_bound, mounted, free_blocks, current_dir_inode>>
            /\ last' = [NoLast EXCEPT !.op = "mount", !.ret = 0]
       ELSE /\ superblock' = disk_sb
            /\ disk_bound' = TRUE
            /\ mounted' = TRUE
            /\ current_dir_inode' = disk_sb.root_inode
            /\ free_blocks' = BuildFreeBlockMap(disk_sb, itable, data)
            /\ UNCHANGED image
            /\ last' = [NoLast EXCEPT !.op = "mount", !.ret = 1, !.notified = TRUE]

\* unmount()
Unmount ==
    /\ Step
    /\ IF mounted
       THEN /\ disk_bound' = FALSE
            /\ mounted' = FALSE
            /\ free_blocks' = <<>>
            /\ UNCHANGED <<image, superblock, current_dir_inode>>
       ELSE UNCHANGED <<image, engine>>
    /\ last' = [NoLast EXCEPT !.op = "unmount", !.notified = mounted]

Result(x, ret, raised) ==
    [itable |-> x.itable, data |-> x.data, free |-> x.free, ret |-> ret, raised |-> raised]

\* create_file after _add_dir_entry returned r: the cleanup on failure.
CreateLinked(inode_num, r) ==
    IF r.raised THEN Result(r, -1, TRUE)
    ELSE IF ~r.ok
    THEN Result([r EXCEPT !.itable[inode_num] = NewInode], -1, FALSE)
    ELSE Result(r, inode_num, FALSE)

\* create_file after _allocate_inode returned inode_num.
CreateAllocated(st, name, inode_num) ==
    IF inode_num < 0 THEN Result(st, -1, FALSE)
    ELSE CreateLinked(inode_num,
            AddDirEntry([st EXCEPT !.itable[inode_num] =
                            [NewInode EXCEPT !.valid = 1, !.inode_type = TYPE_FILE]],
                        current_dir_inode, name, inode_num))

\* create_file(name) on a mounted engine: [itable, data, free, ret, raised]
CreateFileOp(st, name) ==
    IF FindDirEntry(st.itable, st.data, current_dir_inode, name) >= 0
    THEN Result(st, -1, FALSE)
    ELSE CreateAllocated(st, name, AllocateInode(superblock, st.itable))

\* mkdir after the entry in the parent was added (r): the rollback on failure.
MkdirLinked(inode_num, r) ==
    IF r.raised THEN Result(r, -1, TRUE)
    ELSE IF ~r.ok THEN Result(RemoveInode(r, inode_num), -1, FALSE)
    ELSE Result(r, inode_num, FALSE)

\* mkdir after ".." was added (r): the entry in the parent.
MkdirDotDot(name, inode_num, r) ==
    IF r.raised THEN Result(r, -1, TRUE)
    ELSE MkdirLinked(inode_num, AddDirEntry(r, current_dir_inode, name, inode_num))

\* mkdir after "." was added (r): "..".
MkdirDot(name, inode_num, r) ==
    IF r.raised THEN Result(r, -1, TRUE)
    ELSE MkdirDotDot(name, inode_num,
                     AddDirEntry(r, inode_num, DOTDOT, current_dir_inode))

\* mkdir after _allocate_inode returned inode_num.
MkdirAllocated(st, name, inode_num) ==
    IF inode_num < 0 THEN Result(st, -1, FALSE)
    ELSE MkdirDot(name, inode_num,
            AddDirEntry([st EXCEPT !.itable[inode_num] =
                            [NewInode EXCEPT !.valid = 1, !.inode_type = TYPE_DIR]],
                        inode_num, DOT, inode_num))

\* mkdir(name) on a mounted engine: [itable, data, free, ret, raised]
MkdirOp(st, name) ==
    IF FindDirEntry(st.itable, st.data, current_dir_inode, name) >= 0
    THEN Result(st, -1, FALSE)
    ELSE MkdirAllocated(st, name, AllocateInode(superblock, st.itable))

\* What an operation on the mounted engine leaves: the image, the map, and
\* the record of the call.
Done(r, rec) ==
    /\ itable' = r.itable /\ data' = r.data /\ free_blocks' = r.free
    /\ UNCHANGED <<disk_sb, disk_bound, mounted, superblock, current_dir_inode>>
    /\ last' = [rec EXCEPT !.ret = r.ret, !.raised = r.raised]
\* The same, with _notify_gui called at the end of the call.
DoneNotified(r, rec, notified) == Done(r, [rec EXCEPT !.notified = notified])
\* create_file and write call _notify_gui on the paths that return a count or
\* an inode number; remove_file on the path that saves the inode.
DoneReturned(r, rec) == DoneNotified(r, rec, r.ret >= 0 /\ ~r.raised)
DoneRemoved(r, rec) == DoneNotified(r, rec, r.ret = 1)
\* mkdir calls it before returning the inode number; on the rollback the
\* remove_file it calls does.
DoneMkdir(r, rec, allocated) ==
    DoneNotified(r, rec, ~r.raised /\ (r.ret >= 0 \/ allocated))
\* What a call on an engine that is not mounted leaves.
Refused(rec) == UNCHANGED <<image, engine>> /\ last' = rec

CreateFile(name) ==
    /\ Step
    /\ IF ~mounted
       THEN Refused([NoLast EXCEPT !.op = "create_file", !.name = name, !.ret = -1])
       ELSE DoneReturned(CreateFileOp(State, name),
                         [NoLast EXCEPT !.op = "create_file", !.name = name])

Mkdir(name) ==
    /\ Step
    /\ IF ~mounted
       THEN Refused([NoLast EXCEPT !.op = "mkdir", !.name = name, !.ret = -1])
       ELSE DoneMkdir(MkdirOp(State, name), [NoLast EXCEPT !.op = "mkdir", !.name = name],
                      /\ FindDirEntry(itable, data, current_dir_inode, name) < 0
                      /\ AllocateInode(superblock, itable) >= 0)

\* What remove_file returns: the result of saving the inode.
RemovedResult(r) == Result(r, IF r.ok THEN 1 ELSE 0, FALSE)

RemoveFile(inode_num) ==
    /\ Step
    /\ IF ~mounted
       THEN Refused([NoLast EXCEPT !.op = "remove_file", !.inode = inode_num, !.ret = 0])
       ELSE DoneRemoved(RemovedResult(RemoveInode(State, inode_num)),
                        [NoLast EXCEPT !.op = "remove_file", !.inode = inode_num])

\* StatOf without the check of the valid flag.
StatOfAnySlot(it, inode_num) ==
    IF InodeInRange(superblock, inode_num) THEN it[inode_num].size ELSE -1

\* stat(inode_num) on a mounted engine
StatOf(it, inode_num) ==
    IF InodeLive(superblock, it, inode_num) THEN it[inode_num].size ELSE -1

\* stat(inode_num) without the check of the mount state.
StatUnmounted(inode_num) ==
    /\ Step
    /\ UNCHANGED <<image, engine>>
    /\ last' = [NoLast EXCEPT !.op = "stat", !.inode = inode_num,
                              !.ret = StatOf(itable, inode_num)]

Stat(inode_num) ==
    /\ Step
    /\ UNCHANGED <<image, engine>>
    /\ last' = [NoLast EXCEPT !.op = "stat", !.inode = inode_num,
                              !.ret = IF mounted THEN StatOf(itable, inode_num) ELSE -1]

ReadDone(rec, r) == last' = [rec EXCEPT !.out = r.bytes, !.none = r.none]

\* read(inode_num, length, offset)
Read(inode_num, length, offset) ==
    /\ Step
    /\ UNCHANGED <<image, engine>>
    /\ ReadDone([NoLast EXCEPT !.op = "read", !.inode = inode_num, !.length = length,
                               !.offset = offset],
                IF mounted THEN ReadFile(itable, data, inode_num, length, offset)
                ELSE [none |-> TRUE, bytes |-> <<>>])

\* write(inode_num, data, offset)
Write(inode_num, d, offset) ==
    /\ Step
    /\ IF ~mounted
       THEN Refused([NoLast EXCEPT !.op = "write", !.inode = inode_num, !.data = d,
                                   !.offset = offset, !.ret = -1])
       ELSE DoneReturned(WriteFile(State, inode_num, d, offset),
                         [NoLast EXCEPT !.op = "write", !.inode = inode_num, !.data = d,
                                        !.offset = offset])

\* ls()
Ls ==
    /\ Step
    /\ UNCHANGED <<image, engine>>
    /\ last' = [NoLast EXCEPT !.op = "ls",
                              !.out = IF mounted THEN LsOf(itable, data, current_dir_inode)
                                      ELSE <<>>]

\* CdResolved without the check of the target's type.
CdResolvedAnyType(it, path, target) ==
    IF path = SLASH THEN superblock.root_inode
    ELSE IF target < 0 THEN -1
    ELSE IF ~InodeLive(superblock, it, target) THEN -1
    ELSE target

\* The end of cd: target is what _find_dir_entry returned.
CdResolved(it, path, target) ==
    IF path = SLASH THEN superblock.root_inode
    ELSE IF target < 0 THEN -1
    ELSE IF ~InodeLive(superblock, it, target) \/ it[target].inode_type # TYPE_DIR THEN -1
    ELSE target

\* cd(path) on a mounted engine: the new current directory, or -1 when cd fails.
CdTarget(it, dt, cur, path) == CdResolved(it, path, FindDirEntry(it, dt, cur, path))

CdDone(path, t) ==
    /\ current_dir_inode' = IF t >= 0 THEN t ELSE current_dir_inode
    /\ UNCHANGED <<image, disk_bound, mounted, superblock, free_blocks>>
    /\ last' = [NoLast EXCEPT !.op = "cd", !.name = path, !.ret = IF t >= 0 THEN 1 ELSE 0]

Cd(path) ==
    /\ Step
    /\ CdDone(path, IF mounted THEN CdTarget(itable, data, current_dir_inode, path)
                    ELSE -1)

Next ==
    \/ Format
    \/ Mount
    \/ Unmount
    \/ \E name \in NewNames : CreateFile(name)
    \/ \E name \in NewNames : Mkdir(name)
    \/ \E i \in InodeArgs : RemoveFile(i)
    \/ \E i \in InodeArgs : Stat(i)
    \/ \E i \in InodeArgs, sh \in ReadShapes : Read(i, sh[2], sh[1])
    \/ \E i \in InodeArgs, sh \in WriteShapes : Write(i, DataFor(sh[1], sh[2]), sh[1])
    \/ Ls
    \/ \E path \in CdPaths : Cd(path)

Spec == Init /\ [][Next]_vars

\* The engine's life cycle alone, on devices of every size from the smallest
\* that has an inode table block: format, mount, unmount.
GeometrySizes == 2..MaxBlocks

InitGeometry ==
    /\ nblocks \in GeometrySizes
    /\ disk_sb = ZeroSuperBlock
    /\ itable = [i \in 0..(FormatInodes(nblocks) - 1) |-> NewInode]
    /\ data = [b \in 0..(nblocks - 1) |-> ZeroBlock]
    /\ disk_bound = FALSE
    /\ mounted = FALSE
    /\ superblock = [ZeroSuperBlock EXCEPT !.magic_number = MAGIC_NUMBER]
    /\ free_blocks = <<>>
    /\ current_dir_inode = 0
    /\ last = NoLast
    /\ nops = 0

NextGeometry ==
    \/ Format
    \/ Mount
    \/ Unmount

SpecGeometry == InitGeometry /\ [][NextGeometry]_vars

\* ------------------------------------------------- structures.py, byte level
\* The k-th (0-based) little-endian field of a packed structure.
FieldAt(bytes, k) == UnpackU32(Slice(bytes, k * U32_BYTES, (k + 1) * U32_BYTES))
RECURSIVE PackFields(_)
\* struct.pack('<nI', ...) of a sequence of n values.
PackFields(values) ==
    IF values = <<>> THEN <<>>
    ELSE PackU32(Head(values)) \o PackFields(Tail(values))

\* SuperBlock.pack / SuperBlock.unpack, the fields in the order of '<5I'.
SuperBlockPack(f) == PackFields(f) \o Zeros(BLOCK_SIZE - Len(f) * U32_BYTES)
SuperBlockUnpack(bytes) == [k \in 1..5 |-> FieldAt(bytes, k - 1)]
\* Inode.pack / Inode.unpack, the fields in the order of '<11I': valid,
\* inode_type, size, created, modified, direct[...], indirect.
InodeFields == 6 + POINTERS_PER_INODE
InodePack(f) == PackFields(f)
InodeUnpack(bytes) ==
    [k \in 1..InodeFields |->
        FieldAt(bytes \o Zeros(InodeFields * U32_BYTES - Len(bytes)), k - 1)]

\* The inputs of the structures: field values with distinct low and high
\* bytes, and names with and without NUL bytes, up to one byte too long.
U32Samples == {0, BYTE_BASE + 2, U32_MAX}
RECURSIVE Tuples(_, _)
Tuples(n, S) ==
    IF n = 0 THEN {<<>>} ELSE {<<x>> \o t : x \in S, t \in Tuples(n - 1, S)}
NameSamples == UNION {Tuples(n, {0, 97}) : n \in 0..MaxNameLen}
CodecInput(op, name, inode_num, fields) ==
    [NoLast EXCEPT !.op = op, !.name = name, !.inode = inode_num, !.out = fields]

InitCodec ==
    /\ nblocks = SmallDisk
    /\ disk_sb = ZeroSuperBlock
    /\ itable = [i \in 0..(FormatInodes(nblocks) - 1) |-> NewInode]
    /\ data = [b \in 0..(nblocks - 1) |-> ZeroBlock]
    /\ disk_bound = FALSE
    /\ mounted = FALSE
    /\ superblock = [ZeroSuperBlock EXCEPT !.magic_number = MAGIC_NUMBER]
    /\ free_blocks = <<>>
    /\ current_dir_inode = 0
    /\ nops = 0
    /\ last \in {CodecInput("SuperBlock", <<>>, -1, f) : f \in Tuples(5, U32Samples)}
           \cup {CodecInput("Inode", <<>>, -1, f) : f \in Tuples(InodeFields, U32Samples)}
           \cup {CodecInput("DirEntry", n, i, <<>>) : n \in NameSamples, i \in U32Samples}

\* pack of the structure held as input: the bytes go to last.data.
Pack(kind, bytes) ==
    /\ last.op = kind
    /\ last' = [last EXCEPT !.op = kind \o ".pack", !.data = bytes]
    /\ nops' = nops + 1
    /\ UNCHANGED <<nblocks, image, engine>>
\* unpack of the bytes held in last.data: the decoded values replace the input.
Unpack(kind, name, inode_num, fields) ==
    /\ last.op = kind \o ".pack"
    /\ last' = [last EXCEPT !.op = kind \o ".unpack", !.name = name,
                            !.inode = inode_num, !.out = fields]
    /\ nops' = nops + 1
    /\ UNCHANGED <<nblocks, image, engine>>

SuperBlockPacked == Pack("SuperBlock", SuperBlockPack(last.out))
SuperBlockUnpacked == Unpack("SuperBlock", <<>>, -1, SuperBlockUnpack(last.data))
InodePacked == Pack("Inode", InodePack(last.out))
InodeUnpacked == Unpack("Inode", <<>>, -1, InodeUnpack(last.data))
DirEntryPacked == Pack("DirEntry", DirEntryPack(last.name, last.inode))
DirEntryUnpacked ==
    Unpack("DirEntry", DirEntryUnpack(last.data).name,
           DirEntryUnpack(last.data).inode_num, <<>>)

NextCodec ==
    \/ SuperBlockPacked
    \/ SuperBlockUnpacked
    \/ InodePacked
    \/ InodeUnpacked
    \/ DirEntryPacked
    \/ DirEntryUnpacked

SpecCodec == InitCodec /\ [][NextCodec]_vars

\* ------------------------------------------- disk_emulator.py, called directly
\* The block store alone: read and write called with block numbers inside
\* and outside the device and with buffers of one block and of other
\* lengths.  Here last holds the call, its result and the two counters of
\* the DiskEmulator (reads, writes).
Fill(v, n) == [j \in 1..n |-> v]
DiskBlockArgs == {-1, 0, nblocks - 1, nblocks}
DiskBuffers ==
    {Fill(7, BLOCK_SIZE), Fill(9, BLOCK_SIZE), Fill(7, BLOCK_SIZE - 1),
     Fill(7, BLOCK_SIZE + 1)}
DiskCall(op, block_num, buf, ret, out, none, reads, writes) ==
    [op |-> op, block_num |-> block_num, data |-> buf, ret |-> ret, out |-> out,
     none |-> none, reads |-> reads, writes |-> writes]

InitDisk ==
    /\ nblocks = SmallDisk
    /\ disk_sb = ZeroSuperBlock
    /\ itable = [i \in 0..(FormatInodes(nblocks) - 1) |-> NewInode]
    /\ data = [b \in 0..(nblocks - 1) |-> ZeroBlock]
    /\ disk_bound = FALSE
    /\ mounted = FALSE
    /\ superblock = [ZeroSuperBlock EXCEPT !.magic_number = MAGIC_NUMBER]
    /\ free_blocks = <<>>
    /\ current_dir_inode = 0
    /\ nops = 0
    /\ last = DiskCall("none", -1, <<>>, 0, <<>>, FALSE, 0, 0)

\* DiskEmulator.read(block_num)
DiskReadCall(block_num) ==
    /\ Step
    /\ UNCHANGED <<image, engine>>
    /\ last' = IF ~BlockInRange(block_num)
               THEN DiskCall("disk.read", block_num, <<>>, 0, <<>>, TRUE,
                             last.reads, last.writes)
               ELSE DiskCall("disk.read", block_num, <<>>, 0, data[block_num], FALSE,
                             last.reads + 1, last.writes)

\* DiskEmulator.write(block_num, data) without the check of the length.
DiskWriteCallAnySize(block_num, buf) ==
    /\ Step
    /\ UNCHANGED <<disk_sb, itable, engine>>
    /\ IF ~BlockInRange(block_num)
       THEN /\ UNCHANGED data
            /\ last' = DiskCall("disk.write", block_num, buf, 0, <<>>, FALSE,
                                last.reads, last.writes)
       ELSE /\ data' = DiskWrite(data, block_num, buf)
            /\ last' = DiskCall("disk.write", block_num, buf, 1, <<>>, FALSE,
                                last.reads, last.writes + 1)

\* DiskEmulator.write(block_num, data)
DiskWriteCall(block_num, buf) ==
    /\ Step
    /\ UNCHANGED <<disk_sb, itable, engine>>
    /\ IF ~BlockInRange(block_num) \/ Len(buf) # BLOCK_SIZE
       THEN /\ UNCHANGED data
            /\ last' = DiskCall("disk.write", block_num, buf, 0, <<>>, FALSE,
                                last.reads, last.writes)
       ELSE /\ data' = DiskWrite(data, block_num, buf)
            /\ last' = DiskCall("disk.write", block_num, buf, 1, <<>>, FALSE,
                                last.reads, last.writes + 1)

NextDisk ==
    \/ \E b \in DiskBlockArgs : DiskReadCall(b)
    \/ \E b \in DiskBlockArgs, buf \in DiskBuffers : DiskWriteCall(b, buf)

SpecDisk == InitDisk /\ [][NextDisk]_vars

\* ------------------------------------------------------------------ claims
\* The decoded records of directory d's byte stream, as it is on the image.
RawRecords(it, dt, d) ==
    IF ~InodeLive(superblock, it, d) \/ it[d].size = 0 THEN <<>>
    ELSE DirRecords(ReadFile(it, dt, d, it[d].size, 0).bytes)
\* Some record of directory d carries the name n.
RawNamed(it, dt, d, n) ==
    \E k \in 1..Len(RawRecords(it, dt, d)) : RawRecords(it, dt, d)[k].name = n
\* Some record of directory d carries the inode number i.
RawTargets(it, dt, d, i) ==
    \E k \in 1..Len(RawRecords(it, dt, d)) :
        /\ RawRecords(it, dt, d)[k].inode_num = i
        /\ RawRecords(it, dt, d)[k].name # <<>>
\* The free blocks of the data region.
FreeCount(free) ==
    Cardinality({b \in (superblock.inode_blocks + 1)..(superblock.blocks - 1) :
                    b < Len(free) /\ free[b + 1]})
\* The logical blocks the byte range [o, o + n) touches, n > 0.
Spanned(o, n) == (o + n - 1) \div BLOCK_SIZE - o \div BLOCK_SIZE + 1
\* Every block a file's logical indices and its indirect pointer lead to.
Reachable(dt, inode) ==
    ({GetBlockPointer(dt, inode, k) :
         k \in 0..(POINTERS_PER_INODE + POINTERS_PER_BLOCK - 1)}
     \cup {inode.indirect}) \ {0}
IsDir(it, d) == InodeLive(superblock, it, d) /\ it[d].inode_type = TYPE_DIR

\* C1: a write that returns len(d) is read back exactly by a read of len(d)
\* bytes at the same offset, whatever the alignment and across the
\* direct/indirect boundary and in the last indirect slot.
C1_WriteThenRead ==
    (last.op = "write" /\ ~last.raised /\ last.ret = Len(last.data))
        => ReadFile(itable, data, last.inode, Len(last.data), last.offset)
             = [none |-> FALSE, bytes |-> last.data]
\* A complete write across the last direct block and the first indirect slot.
C1_Witness ==
    /\ last.op = "write" /\ last.ret = Len(last.data)
    /\ last.offset = POINTERS_PER_INODE * BLOCK_SIZE - 1
    /\ itable[last.inode].indirect # 0
    /\ GetBlockPointer(data, itable[last.inode], POINTERS_PER_INODE) # 0

\* C2: write never raises: when an allocation fails (of a data block or of
\* the indirect block) it returns the count written so far.
C2_WriteNeverRaises ==
    last.op = "write" => (~last.raised /\ last.ret >= -1 /\ last.ret <= Len(last.data))

C4_RemoveFreesBlocks ==
    [][(last'.op = "remove_file" /\ last'.ret = 1)
       => (/\ \A b \in Reachable(data, itable[last'.inode]) :
                 /\ b > superblock.inode_blocks /\ b < superblock.blocks
                 /\ b < Len(free_blocks') /\ free_blocks'[b + 1]
           /\ Reachable(data, itable[last'.inode]) # {}
                 => AllocateBlock(superblock, free_blocks').blk >= 0)]_vars
\* A removed file that had direct blocks, an indirect block and a block
\* behind it: all free again.
C4_Witness ==
    /\ last.op = "remove_file" /\ last.ret = 1
    /\ itable[last.inode].direct[POINTERS_PER_INODE] # 0
    /\ itable[last.inode].indirect # 0
    /\ GetBlockPointer(data, itable[last.inode], POINTERS_PER_INODE) # 0
    /\ \A b \in Reachable(data, itable[last.inode]) : free_blocks[b + 1]

\* C5: on a mounted engine ls of any directory, and the ls last returned,
\* list only inodes whose valid flag is 1.
C5_LsOnlyValid ==
    mounted =>
        /\ \A d \in DOMAIN itable :
              \A k \in 1..Len(LsOf(itable, data, d)) :
                  /\ InodeInRange(superblock, LsOf(itable, data, d)[k][2])
                  /\ itable[LsOf(itable, data, d)[k][2]].valid = 1
        /\ last.op = "ls" =>
              \A k \in 1..Len(last.out) :
                  /\ InodeInRange(superblock, last.out[k][2])
                  /\ itable[last.out[k][2]].valid = 1
\* ls ran on a directory whose bytes hold a record of a removed inode.
C5_Witness ==
    /\ mounted /\ last.op = "ls"
    /\ \E i \in DOMAIN itable :
          /\ itable[i].valid = 0
          /\ RawTargets(itable, data, current_dir_inode, i)
          /\ \A k \in 1..Len(last.out) : last.out[k][2] # i

\* C6: remove_file(i) changes no directory: every other inode keeps its
\* validity, its size and its bytes, and no block of the image changes, so
\* the record naming i stays where it was.
C6_RemoveKeepsDirectories ==
    [][last'.op = "remove_file"
       => (/\ data' = data
           /\ \A d \in DOMAIN itable :
                 d # last'.inode =>
                    /\ itable'[d] = itable[d]
                    /\ RawRecords(itable', data', d) = RawRecords(itable, data, d)
                    /\ ReadFile(itable', data', d, itable[d].size, 0)
                         = ReadFile(itable, data, d, itable[d].size, 0))]_vars
\* A file was removed and its parent's bytes still hold the record naming it.
C6_Witness ==
    /\ last.op = "remove_file" /\ last.ret = 1
    /\ IsDir(itable, current_dir_inode) /\ current_dir_inode # last.inode
    /\ RawTargets(itable, data, current_dir_inode, last.inode)

\* C7: create_file(name) and mkdir(name) fail when a record of the current
\* directory carries the name, live or stale, and then change neither the
\* inode table, nor a block, nor the free-block map.
C7_AlreadyExists ==
    [][(/\ last'.op \in {"create_file", "mkdir"} /\ mounted
        /\ RawNamed(itable, data, current_dir_inode, last'.name))
       => (/\ last'.ret = -1 /\ ~last'.raised
           /\ itable' = itable /\ data' = data /\ free_blocks' = free_blocks)]_vars
\* create_file or mkdir was refused for a name whose record is stale.
C7_Witness ==
    /\ last.op \in {"create_file", "mkdir"} /\ last.ret = -1 /\ mounted
    /\ RawNamed(itable, data, current_dir_inode, last.name)
    /\ FindDirEntry(itable, data, current_dir_inode, last.name) >= 0
    /\ ~InodeLive(superblock, itable,
                  FindDirEntry(itable, data, current_dir_inode, last.name))

\* C8: whenever mkdir(n) succeeds with inode k from a valid directory d, k
\* holds "." -> k and ".." -> d, so cd(n) leads to k and cd("..") back to d.
C8_MkdirDotEntries ==
    (/\ last.op = "mkdir" /\ ~last.raised /\ last.ret >= 0
     /\ last.ret # current_dir_inode /\ IsDir(itable, current_dir_inode)
     /\ itable[current_dir_inode].size % ENTRY_SIZE = 0)
    => (/\ FindDirEntry(itable, data, last.ret, DOT) = last.ret
        /\ FindDirEntry(itable, data, last.ret, DOTDOT) = current_dir_inode
        /\ CdTarget(itable, data, current_dir_inode, last.name) = last.ret
        /\ CdTarget(itable, data, last.ret, DOTDOT) = current_dir_inode)

\* C9: stat, read, write and remove_file of an inode that is not valid (a
\* removed one, until the slot is used again) fail and change nothing; and
\* stat of a new file fully written from offset 0 is the length written.
C9_RemovedInodeFails ==
    [][/\ (/\ last'.op \in {"stat", "read", "write", "remove_file"} /\ mounted
           /\ ~InodeLive(superblock, itable, last'.inode))
          => (/\ last'.op = "stat" => last'.ret = -1
              /\ last'.op = "read" => last'.none
              /\ last'.op = "write" => last'.ret = -1
              /\ last'.op = "remove_file" => last'.ret = 0
              /\ ~last'.raised
              /\ UNCHANGED <<image, engine>>)
       /\ (/\ last'.op = "write" /\ mounted
           /\ InodeLive(superblock, itable, last'.inode)
           /\ itable[last'.inode].size = 0 /\ last'.offset = 0
           /\ last'.ret = Len(last'.data))
          => StatOf(itable', last'.inode) = Len(last'.data)]_vars
\* stat was refused for an inode a record of the current directory names.
C9_Witness ==
    /\ last.op = "stat" /\ last.ret = -1 /\ mounted
    /\ InodeInRange(superblock, last.inode)
    /\ RawTargets(itable, data, current_dir_inode, last.inode)

\* C10: when create_file or mkdir returns failure from a valid directory
\* whose stream is whole records, the directory's size and bytes are as
\* before the call.
C10_FailureKeepsParent ==
    [][(/\ last'.op \in {"create_file", "mkdir"} /\ mounted
        /\ last'.ret = -1 /\ ~last'.raised
        /\ IsDir(itable, current_dir_inode)
        /\ itable[current_dir_inode].size % ENTRY_SIZE = 0)
       => (/\ itable'[current_dir_inode].size = itable[current_dir_inode].size
           /\ ReadFile(itable', data', current_dir_inode,
                       itable[current_dir_inode].size, 0)
                = ReadFile(itable, data, current_dir_inode,
                           itable[current_dir_inode].size, 0))]_vars

\* The valid inodes of a table.
ValidInodes(it) == {i \in DOMAIN it : it[i].valid # 0}

\* C11: when create_file or mkdir gets an inode and the link into the parent
\* then fails, the call ends with that inode invalid, the same valid inodes
\* as before and every block that was free before free again.
C11_RollbackOnLinkFailure ==
    [][(/\ last'.op \in {"create_file", "mkdir"} /\ mounted
        /\ FindDirEntry(itable, data, current_dir_inode, last'.name) < 0
        /\ AllocateInode(superblock, itable) >= 0
        /\ (last'.ret = -1 \/ last'.raised))
       => (/\ itable'[AllocateInode(superblock, itable)].valid = 0
           /\ ValidInodes(itable') = ValidInodes(itable)
           /\ \A b \in 1..Len(free_blocks) : free_blocks[b] => free_blocks'[b])]_vars
\* The same, for the calls that return the failure.
C11_RollbackWhenReturned ==
    [][(/\ last'.op \in {"create_file", "mkdir"} /\ mounted
        /\ FindDirEntry(itable, data, current_dir_inode, last'.name) < 0
        /\ AllocateInode(superblock, itable) >= 0
        /\ last'.ret = -1 /\ ~last'.raised)
       => (/\ itable'[AllocateInode(superblock, itable)].valid = 0
           /\ ValidInodes(itable') = ValidInodes(itable)
           /\ \A b \in 1..Len(free_blocks) : free_blocks[b] => free_blocks'[b])]_vars

\* C12: a mount that follows a successful format succeeds, and the mounted
\* superblock reports the device's block count, max(1, ceil(N / 10)) inode
\* table blocks, that many times INODES_PER_BLOCK inodes and root inode 0,
\* with the current directory at the root.
C12_FormatThenMount ==
    [][(last.op = "format" /\ last.ret = 1 /\ last'.op = "mount")
       => LET ceil == CHOOSE k \in 0..nblocks :
                          10 * k >= nblocks /\ 10 * (k - 1) < nblocks
          IN  /\ last'.ret = 1 /\ mounted' /\ disk_bound'
              /\ superblock'.blocks = nblocks
              /\ superblock'.inode_blocks = (IF ceil < 1 THEN 1 ELSE ceil)
              /\ superblock'.inodes = superblock'.inode_blocks * INODES_PER_BLOCK
              /\ superblock'.root_inode = 0
              /\ current_dir_inode' = 0]_vars
\* A mounted device whose size is not a multiple of ten and whose inode table
\* has more than one block.
C12_Witness ==
    /\ last.op = "mount" /\ last.ret = 1 /\ mounted
    /\ nblocks % 10 # 0 /\ superblock.inode_blocks > 1
    /\ superblock.inodes = superblock.inode_blocks * INODES_PER_BLOCK

\* C13: mount of an image whose block 0 does not hold the magic number fails
\* and leaves the engine unmounted, with no device bound and no free-block
\* map, and the image as it was; on such an image every file operation
\* answers as on an engine that is not mounted and changes nothing.
C13_BadMagicMount ==
    [][/\ (last'.op = "mount" /\ ~mounted /\ disk_sb.magic_number # MAGIC_NUMBER)
          => (/\ last'.ret = 0 /\ ~mounted' /\ ~disk_bound'
              /\ free_blocks' = <<>>
              /\ UNCHANGED <<image, current_dir_inode>>)
       /\ (/\ disk_sb.magic_number # MAGIC_NUMBER
           /\ last'.op \in {"create_file", "mkdir", "remove_file", "stat", "read",
                            "write", "ls", "cd"})
          => (/\ last'.op \in {"create_file", "mkdir", "stat", "write"} => last'.ret = -1
              /\ last'.op \in {"remove_file", "cd"} => last'.ret = 0
              /\ last'.op = "read" => last'.none
              /\ last'.op = "ls" => last'.out = <<>>
              /\ ~last'.raised
              /\ UNCHANGED <<image, engine>>)]_vars
\* mount was refused on the image that was never formatted, and the engine
\* holds the superblock it decoded from it.
C13_Witness ==
    /\ last.op = "mount" /\ last.ret = 0
    /\ disk_sb.magic_number # MAGIC_NUMBER /\ superblock = disk_sb
    /\ ~mounted /\ ~disk_bound /\ free_blocks = <<>>

\* C14: a write on a valid inode that returns k has 0 <= k <= len(data), and
\* the inode's size on the image is then the larger of the size before the
\* call and offset + k; k may be less than len(data).
C14_WriteCountAndSize ==
    [][(/\ last'.op = "write" /\ mounted /\ ~last'.raised
        /\ InodeLive(superblock, itable, last'.inode))
       => (/\ last'.ret >= 0 /\ last'.ret <= Len(last'.data)
           /\ itable'[last'.inode].size
                = (IF itable[last'.inode].size > last'.offset + last'.ret
                   THEN itable[last'.inode].size
                   ELSE last'.offset + last'.ret))]_vars
\* A write from offset 0 that stopped after one block with the device full,
\* on an inode that stays larger than the bytes written.
C14_Witness ==
    /\ last.op = "write" /\ ~last.raised /\ mounted
    /\ last.offset = 0 /\ last.ret = BLOCK_SIZE /\ Len(last.data) > BLOCK_SIZE
    /\ InodeLive(superblock, itable, last.inode)
    /\ itable[last.inode].size > BLOCK_SIZE

\* C15: no valid inode's size exceeds the maximum file size, whatever writes
\* are issued, and a write that starts at or beyond the maximum returns 0.
C15_SizeWithinMaximum ==
    /\ mounted =>
          \A i \in DOMAIN itable :
              InodeLive(superblock, itable, i) => itable[i].size <= MAX_FILE_SIZE
    /\ (/\ mounted /\ last.op = "write" /\ ~last.raised /\ last.ret >= 0
        /\ last.offset >= MAX_FILE_SIZE)
          => last.ret = 0

\* C16: read of a valid inode never fails; it returns nothing when offset >=
\* size, and otherwise the bytes from offset to min(offset + length, size),
\* byte for byte from the blocks the pointers name, ending before the first
\* byte whose logical block has pointer 0.
C16_ReadRange ==
    [][(/\ last'.op = "read" /\ mounted
        /\ InodeLive(superblock, itable, last'.inode))
       => LET inode == itable[last'.inode]
              o == last'.offset
              n == IF last'.length < inode.size - o THEN last'.length
                   ELSE inode.size - o
              Ptr(p) == GetBlockPointer(data, inode, (o + p) \div BLOCK_SIZE)
              holes == {p \in 0..(n - 1) : Ptr(p) = 0}
              cut == IF holes = {} THEN n ELSE SetMin(holes)
          IN  /\ ~last'.none
              /\ o >= inode.size => last'.out = <<>>
              /\ o < inode.size =>
                    /\ Len(last'.out) = cut
                    /\ \A p \in 0..(cut - 1) :
                          last'.out[p + 1] = data[Ptr(p)][((o + p) % BLOCK_SIZE) + 1]]_vars
\* A read of two blocks' worth from offset 0 that ended at the hole in the
\* second block of a longer file.
C16_Witness ==
    /\ last.op = "read" /\ mounted /\ ~last.none
    /\ InodeLive(superblock, itable, last.inode)
    /\ last.offset = 0 /\ last.length > BLOCK_SIZE
    /\ itable[last.inode].size >= last.length
    /\ GetBlockPointer(data, itable[last.inode], 1) = 0
    /\ Len(last.out) = BLOCK_SIZE

\* C17: on a mounted engine cd("/") succeeds and sets the current directory
\* to inode 0; cd(name) succeeds and sets it to the inode _find_dir_entry
\* gives for the name when that inode is valid and a directory; otherwise cd
\* fails and the current directory stays.  No cd changes the image.
C17_ChangeDirectory ==
    [][(last'.op = "cd" /\ mounted)
       => LET t == FindDirEntry(itable, data, current_dir_inode, last'.name)
          IN  /\ UNCHANGED image
              /\ IF last'.name = SLASH
                 THEN last'.ret = 1 /\ current_dir_inode' = 0
                 ELSE IF t >= 0 /\ IsDir(itable, t)
                 THEN last'.ret = 1 /\ current_dir_inode' = t
                 ELSE last'.ret = 0 /\ current_dir_inode' = current_dir_inode]_vars
\* cd was refused for a name that resolves to a valid file.
C17_Witness ==
    /\ last.op = "cd" /\ last.ret = 0 /\ mounted
    /\ FindDirEntry(itable, data, current_dir_inode, last.name) >= 0
    /\ InodeLive(superblock, itable,
                 FindDirEntry(itable, data, current_dir_inode, last.name))
    /\ itable[FindDirEntry(itable, data, current_dir_inode, last.name)].inode_type
         = TYPE_FILE

\* C18: format on a mounted engine returns False and changes neither the
\* image nor the in-memory superblock, the free-block map or the current
\* directory.
C18_FormatWhileMounted ==
    [][(last'.op = "format" /\ mounted)
       => (last'.ret = 0 /\ ~last'.raised /\ UNCHANGED <<image, engine>>)]_vars
\* format was refused on a mounted engine whose root directory has content.
C18_Witness ==
    /\ last.op = "format" /\ last.ret = 0 /\ mounted
    /\ itable[0].valid = 1 /\ itable[0].size > 0
    /\ \E i \in DOMAIN itable : i # 0 /\ itable[i].valid = 1

\* C19: mount on a mounted engine returns False and changes neither the
\* mount state, the bound device, the in-memory superblock, the free-block
\* map nor the current directory, nor the image.
C19_MountWhileMounted ==
    [][(last'.op = "mount" /\ mounted)
       => (last'.ret = 0 /\ ~last'.raised /\ UNCHANGED <<image, engine>>)]_vars
\* mount was refused on a mounted engine whose current directory is not the
\* root.
C19_Witness ==
    /\ last.op = "mount" /\ last.ret = 0 /\ mounted /\ disk_bound
    /\ current_dir_inode # superblock.root_inode
    /\ IsDir(itable, current_dir_inode)

\* C20: while the engine is not mounted, create_file, mkdir, stat and write
\* return -1, remove_file and cd return False, read returns None and ls an
\* empty list; none raises, and neither the image nor the engine changes.
C20_NotMounted ==
    [][(/\ ~mounted
        /\ last'.op \in {"create_file", "mkdir", "remove_file", "stat", "read",
                         "write", "ls", "cd"})
       => (/\ last'.op \in {"create_file", "mkdir", "stat", "write"} => last'.ret = -1
           /\ last'.op \in {"remove_file", "cd"} => last'.ret = 0
           /\ last'.op = "read" => (last'.none /\ last'.out = <<>>)
           /\ last'.op = "ls" => last'.out = <<>>
           /\ ~last'.raised
           /\ UNCHANGED <<image, engine>>)]_vars
\* stat of a valid inode was refused after an unmount.
C20_Witness ==
    /\ last.op = "stat" /\ last.ret = -1 /\ ~mounted /\ ~disk_bound
    /\ disk_sb.magic_number = MAGIC_NUMBER
    /\ InodeLive(superblock, itable, last.inode)
    /\ itable[last.inode].size > 0

\* C21: unpack of the packed bytes gives back every field of a SuperBlock
\* and of an Inode, and the name and the inode number of a DirEntry whose
\* name has at most MAX_FILENAME bytes and does not end in a NUL byte.
C21_PackUnpackRoundTrip ==
    [][/\ last'.op \in {"SuperBlock.unpack", "Inode.unpack"} => last'.out = last.out
       /\ (/\ last'.op = "DirEntry.unpack"
           /\ Len(last.name) <= MAX_FILENAME
           /\ (last.name = <<>> \/ last.name[Len(last.name)] # 0))
          => (last'.name = last.name /\ last'.inode = last.inode)]_vars
\* A DirEntry of the longest name, with a NUL byte inside it, unpacked to
\* the same name and the same two-byte inode number.
C21_Witness ==
    /\ last.op = "DirEntry.unpack"
    /\ last.name = <<0, 97>> /\ last.inode = BYTE_BASE + 2
    /\ last.data = DirEntryPack(<<0, 97>>, BYTE_BASE + 2)

\* C22: the block store's read fails for a block number outside the device;
\* its write fails for a buffer that is not one block long and for a block
\* number outside the device; a failed call changes neither the image nor a
\* counter; a successful read returns the block and adds one to reads only,
\* a successful write stores the buffer in that block alone and adds one to
\* writes only.
C22_BlockStoreCalls ==
    [][/\ last'.op = "disk.read" =>
             IF last'.block_num < 0 \/ last'.block_num >= nblocks
             THEN /\ last'.none /\ data' = data
                  /\ last'.reads = last.reads /\ last'.writes = last.writes
             ELSE /\ ~last'.none /\ last'.out = data[last'.block_num] /\ data' = data
                  /\ last'.reads = last.reads + 1 /\ last'.writes = last.writes
       /\ last'.op = "disk.write" =>
             IF \/ last'.block_num < 0 \/ last'.block_num >= nblocks
                \/ Len(last'.data) # BLOCK_SIZE
             THEN /\ last'.ret = 0 /\ data' = data
                  /\ last'.reads = last.reads /\ last'.writes = last.writes
             ELSE /\ last'.ret = 1
                  /\ data' = [data EXCEPT ![last'.block_num] = last'.data]
                  /\ last'.reads = last.reads /\ last'.writes = last.writes + 1]_vars
\* A write of one byte too many to a block of the device was refused after
\* an earlier write and an earlier read had been counted.
C22_Witness ==
    /\ last.op = "disk.write" /\ last.ret = 0
    /\ last.block_num = 0 /\ Len(last.data) = BLOCK_SIZE + 1
    /\ last.reads = 1 /\ last.writes = 1
    /\ data[0] = Fill(9, BLOCK_SIZE)

\* C23: every format, mount, unmount, create_file, mkdir, remove_file and
\* write that changes the image or the engine ends with a call of the
\* observer's callback made after its changes.
C23_NotifyAfterMutation ==
    [][(/\ last'.op \in {"format", "mount", "unmount", "create_file", "mkdir",
                         "remove_file", "write"}
        /\ <<image, engine>>' # <<image, engine>>)
       => last'.notified]_vars

\* C24: on a mounted engine the free-block map in memory is the map mount
\* would build from the image: a block is marked used exactly when it is a
\* metadata block or a valid inode refers to it.
C24_MapMatchesImage ==
    mounted => free_blocks = BuildFreeBlockMap(superblock, itable, data)

\* C24, calls that return: a call that returns on an engine whose map matched
\* the image leaves a map that matches the image, and mount builds such a map.
C24_MapKeptWhenReturned ==
    [][(/\ mounted'
        /\ ~last'.raised
        /\ mounted => free_blocks = BuildFreeBlockMap(superblock, itable, data))
       => free_blocks' = BuildFreeBlockMap(superblock', itable', data')]_vars

\* The references of the image: one record per non-zero pointer slot of a
\* valid inode (slots 1..POINTERS_PER_INODE are the direct pointers, slot 0 is
\* the indirect pointer, the slots after POINTERS_PER_INODE are the pointers
\* stored in the indirect block).
References(it, dt) ==
    LET SlotsOf(i) ==
            {[owner |-> i, slot |-> k, block |-> it[i].direct[k]] :
                k \in 1..POINTERS_PER_INODE}
            \cup {[owner |-> i, slot |-> 0, block |-> it[i].indirect]}
            \cup (IF BlockInRange(it[i].indirect) /\ it[i].indirect # 0
                  THEN {[owner |-> i, slot |-> POINTERS_PER_INODE + k,
                         block |-> Pointers(dt[it[i].indirect])[k]] :
                            k \in 1..POINTERS_PER_BLOCK}
                  ELSE {})
    IN  {r \in UNION {SlotsOf(i) : i \in ValidInodes(it)} : r.block # 0}

\* C25: on a mounted engine no block is referenced from two pointer slots (of
\* one valid inode or of two, the indirect pointer included) and every
\* referenced block lies after the inode table and on the device.
C25_NoSharedBlock ==
    mounted =>
        /\ \A r \in References(itable, data) :
              r.block > superblock.inode_blocks /\ r.block < superblock.blocks
        /\ \A r1, r2 \in References(itable, data) :
              r1.block = r2.block => r1 = r2

C25_Witness ==
    /\ mounted
    /\ last.op = "write" /\ last.ret > 0
    /\ \E r1, r2, r3 \in References(itable, data) :
          /\ r1.owner # r2.owner
          /\ r3.owner = r2.owner /\ r3.slot = 0 /\ r2.slot > POINTERS_PER_INODE

\* C26: on a mounted engine the root inode 0 and the current-directory inode
\* are valid directories.
C26_RootAndCurrentAreDirectories ==
    mounted => IsDir(itable, 0) /\ IsDir(itable, current_dir_inode)

\* The names ls of directory d returns.
ListedNames(it, dt, d) == {LsOf(it, dt, d)[k][1] : k \in 1..Len(LsOf(it, dt, d))}

\* C27: a name that ls of the current directory does not return (its file was
\* removed) is not returned after a later create_file or mkdir either, unless
\* that call created an entry under this very name.
C27_RemovedNameStaysRemoved ==
    [][(/\ mounted
        /\ last'.op \in {"create_file", "mkdir"}
        /\ IsDir(itable, current_dir_inode))
       => ListedNames(itable', data', current_dir_inode)
              \subseteq (ListedNames(itable, data, current_dir_inode) \cup {last'.name})]_vars

\* C28: after a write that starts past the end of the inode, the bytes between
\* the old end and the starting offset that lie in a block allocated by this
\* write read as zero.
C28_UnwrittenBytesReadZero ==
    [][(/\ mounted
        /\ last'.op = "write" /\ ~last'.raised /\ last'.ret > 0
        /\ InodeLive(superblock, itable, last'.inode))
       => \A p \in itable[last'.inode].size..(last'.offset - 1) :
             (/\ GetBlockPointer(data, itable[last'.inode], p \div BLOCK_SIZE) = 0
              /\ GetBlockPointer(data', itable'[last'.inode], p \div BLOCK_SIZE) # 0)
             => ReadFile(itable', data', last'.inode, 1, p).bytes = <<0>>]_vars

\* ------------------------------------------------------------------------
\* Mount of images whose inode table was not left by the engine: pointers
\* beyond the device, pointers kept by invalid inodes, an indirect block
\* holding pointers of either kind.
\* ------------------------------------------------------------------------
FormattedSuperBlock(n) ==
    [magic_number |-> MAGIC_NUMBER, blocks |-> n,
     inode_blocks |-> FormatInodeBlocks(n), inodes |-> FormatInodes(n),
     root_inode |-> 0]

\* The direct pointers, indirect pointers and stored pointers of the images.
RebuildDirect == {0, FormatInodeBlocks(nblocks) + 1, nblocks}
RebuildIndirect == {0, nblocks - 1, nblocks + 1}
RebuildStored == {0, FormatInodeBlocks(nblocks) + 2, U32_MAX}

InitRebuild ==
    /\ nblocks = LargeDisk
    /\ disk_sb = FormattedSuperBlock(nblocks)
    /\ \E v1, v2 \in {0, 1}, d1, d2 \in RebuildDirect, x1, x2 \in RebuildIndirect :
          itable = [i \in 0..(FormatInodes(nblocks) - 1) |->
                      IF i = 0 THEN [NewInode EXCEPT !.valid = 1, !.inode_type = TYPE_DIR]
                      ELSE IF i = 1
                      THEN [NewInode EXCEPT !.valid = v1, !.direct[1] = d1, !.indirect = x1]
                      ELSE IF i = 2
                      THEN [NewInode EXCEPT !.valid = v2, !.direct[POINTERS_PER_INODE] = d2,
                                            !.indirect = x2]
                      ELSE NewInode]
    /\ \E p1, p2 \in RebuildStored :
          data = [b \in 0..(nblocks - 1) |->
                    IF b = nblocks - 1
                    THEN PackInto(PackInto(ZeroBlock, 0, p1), POINTERS_PER_BLOCK - 1, p2)
                    ELSE ZeroBlock]
    /\ disk_bound = FALSE
    /\ mounted = FALSE
    /\ superblock = [ZeroSuperBlock EXCEPT !.magic_number = MAGIC_NUMBER]
    /\ free_blocks = <<>>
    /\ current_dir_inode = 0
    /\ last = NoLast
    /\ nops = 0

NextRebuild ==
    \/ Mount
    \/ Unmount

SpecRebuild == InitRebuild /\ [][NextRebuild]_vars

\* C29: a mount that succeeds leaves the image alone and builds a map with
\* one mark per block of the device, in which block b is used exactly when b
\* is block 0, a block of the inode table, or the value of a pointer slot of a
\* valid inode; pointers beyond the device and the pointers of invalid inodes
\* mark nothing, and every mount of the same image builds the same map.
C29_MapAfterMount ==
    [][(last'.op = "mount" /\ last'.ret = 1)
       => /\ image' = image
          /\ Len(free_blocks') = disk_sb.blocks
          /\ \A b \in 0..(disk_sb.blocks - 1) :
                ~free_blocks'[b + 1]
                <=> \/ b <= disk_sb.inode_blocks
                    \/ \E r \in References(itable, data) : r.block = b]_vars

C29_Witness ==
    /\ mounted /\ last.op = "mount" /\ last.ret = 1 /\ nops > 1
    /\ \E r \in References(itable, data) : r.block >= nblocks
    /\ \E r \in References(itable, data) :
          r.slot > POINTERS_PER_INODE /\ r.block < nblocks /\ ~free_blocks[r.block + 1]
    /\ \E i \in DOMAIN itable : \E k \in 1..POINTERS_PER_INODE :
          /\ itable[i].valid = 0
          /\ itable[i].direct[k] > 0 /\ itable[i].direct[k] < nblocks
          /\ free_blocks[itable[i].direct[k] + 1]

\* ------------------------------------------------------------------------
\* Sessions long enough to populate a device, enter a directory, unmount and
\* mount again: the calls of Spec with one name, one path and one write, and
\* RemountExtra more calls than MaxOps.
\* ------------------------------------------------------------------------
RemountExtra == 2

InitRemount ==
    /\ nblocks = LargeDisk
    /\ disk_sb = ZeroSuperBlock
    /\ itable = [i \in 0..(FormatInodes(nblocks) - 1) |-> NewInode]
    /\ data = [b \in 0..(nblocks - 1) |-> ZeroBlock]
    /\ disk_bound = FALSE
    /\ mounted = FALSE
    /\ superblock = [ZeroSuperBlock EXCEPT !.magic_number = MAGIC_NUMBER]
    /\ free_blocks = <<>>
    /\ current_dir_inode = 0
    /\ last = NoLast
    /\ nops = 0 - RemountExtra

NextRemount ==
    \/ Format
    \/ Mount
    \/ Unmount
    \/ CreateFile(NameB)
    \/ Mkdir(NameA)
    \/ \E i \in {1, 2} : RemoveFile(i)
    \/ \E i \in {1, 2} : Write(i, DataFor(0, BLOCK_SIZE + 1), 0)
    \/ \E path \in {NameA, SLASH} : Cd(path)

SpecRemount == InitRemount /\ [][NextRemount]_vars

\* What stat, read and ls return for every inode of the inode table it and
\* the blocks dt, with the validity and the type of every inode slot.
Observation(it, dt) ==
    [stat |-> [i \in InodeArgs |-> StatOf(it, i)],
     read |-> [i \in InodeArgs |-> ReadFile(it, dt, i, MAX_FILE_SIZE, 0)],
     ls   |-> [d \in InodeArgs |-> LsOf(it, dt, d)],
     slot |-> [i \in DOMAIN it |-> <<it[i].valid, it[i].inode_type>>]]

\* C30: unmount of a mounted engine and the mount that follows it keep the
\* superblock the engine works with and leave what stat, read and ls return
\* for every inode, and the validity and type of every slot, as they were;
\* the mount succeeds and the current directory is the root afterwards.
C30_RemountPreserves ==
    [][/\ (mounted /\ last'.op = "unmount")
          => /\ ~mounted'
             /\ superblock' = superblock
             /\ Observation(itable', data') = Observation(itable, data)
       /\ (last.op = "unmount" /\ last.notified /\ last'.op = "mount")
          => /\ last'.ret = 1 /\ mounted'
             /\ superblock' = superblock
             /\ Observation(itable', data') = Observation(itable, data)
             /\ current_dir_inode' = superblock'.root_inode]_vars

C30_Witness ==
    /\ last.op = "mount" /\ last.ret = 1 /\ mounted
    /\ current_dir_inode = superblock.root_inode
    /\ \E d \in DOMAIN itable :
          /\ d # 0 /\ IsDir(itable, d)
          /\ RawTargets(itable, data, 0, d)
          /\ \E f \in DOMAIN itable :
                /\ RawTargets(itable, data, d, f)
                /\ InodeLive(superblock, itable, f)
                /\ itable[f].inode_type = TYPE_FILE

\* ------------------------------------------------------------------------
\* Direct calls of the engine's private helpers on a formatted and mounted
\* device. A call is recorded with its arguments and what it returned.
\* ------------------------------------------------------------------------
HelperCall(op, args, ret) == [op |-> op, args |-> args, ret |-> ret]

\* The engine after format(disk) and mount(disk) on a new device.
InitMounted ==
    /\ nblocks \in DiskSizes
    /\ disk_sb = FormattedSuperBlock(nblocks)
    /\ itable = [i \in 0..(FormatInodes(nblocks) - 1) |->
                    IF i = 0 THEN [NewInode EXCEPT !.valid = 1, !.inode_type = TYPE_DIR]
                    ELSE NewInode]
    /\ data = [b \in 0..(nblocks - 1) |-> ZeroBlock]
    /\ disk_bound = TRUE
    /\ mounted = TRUE
    /\ superblock = disk_sb
    /\ free_blocks = BuildFreeBlockMap(disk_sb, itable, data)
    /\ current_dir_inode = 0
    /\ last = NoLast
    /\ nops = 0

\* _allocate_block()
AllocateBlockCall ==
    /\ Step
    /\ LET a == AllocateBlock(superblock, free_blocks)
       IN  /\ free_blocks' = a.free
           /\ last' = HelperCall("_allocate_block", <<>>, a.blk)
    /\ UNCHANGED <<image, disk_bound, mounted, superblock, current_dir_inode>>

\* _free_block(block_num)
FreeBlockCall(block_num) ==
    /\ Step
    /\ free_blocks' = FreeBlock(free_blocks, block_num)
    /\ last' = HelperCall("_free_block", <<block_num>>, 0)
    /\ UNCHANGED <<image, disk_bound, mounted, superblock, current_dir_inode>>

NextAllocate ==
    \/ AllocateBlockCall
    \/ \E b \in -1..nblocks : FreeBlockCall(b)

SpecAllocate == InitMounted /\ [][NextAllocate]_vars

\* C31: _allocate_block returns the lowest block after the inode table that
\* the map marks free and marks that block alone used, or returns -1 and
\* leaves the map alone when the map has no such block; its result depends on
\* the map and the superblock only, and it is never block 0 or a block of the
\* inode table, whatever _free_block has freed.
C31_AllocateLowestFree ==
    [][last'.op = "_allocate_block" =>
          LET cand == {b \in (superblock.inode_blocks + 1)..(superblock.blocks - 1) :
                          free_blocks[b + 1]}
          IN  /\ image' = image
              /\ IF cand = {}
                 THEN last'.ret = -1 /\ free_blocks' = free_blocks
                 ELSE /\ last'.ret \in cand
                      /\ \A c \in cand : last'.ret <= c
                      /\ free_blocks' = [free_blocks EXCEPT ![last'.ret + 1] = FALSE]]_vars

\* The first data block is in use, block 0 and an inode-table block had been
\* freed, and the call returned the second data block.
C31_Witness ==
    /\ last.op = "_allocate_block"
    /\ last.ret = superblock.inode_blocks + 2
    /\ free_blocks[1] /\ free_blocks[superblock.inode_blocks + 1]
    /\ ~free_blocks[superblock.inode_blocks + 2]

\* ------------------------------------------------------------------------
\* Sessions of create_file, mkdir and remove_file on a formatted and mounted
\* device, with one name more than the inode table of the model has free
\* slots after format.
\* ------------------------------------------------------------------------
NameD == <<100>>

NextInodes ==
    \/ \E name \in NewNames \cup {NameD} : CreateFile(name)
    \/ \E name \in {NameA, NameD} : Mkdir(name)
    \/ \E i \in InodeArgs : RemoveFile(i)

SpecInodes == InitMounted /\ [][NextInodes]_vars

\* C32: the inode a create_file or mkdir returns, and any slot the call makes
\* valid, is the lowest slot whose valid flag was 0; when no slot has valid
\* flag 0 the call returns -1 and changes neither the image nor the engine.
C32_LowestFreeInode ==
    [][(mounted /\ last'.op \in {"create_file", "mkdir"}) =>
          LET free == {i \in 0..(superblock.inodes - 1) : itable[i].valid = 0}
          IN  /\ last'.ret >= 0 => (last'.ret \in free /\ \A j \in free : last'.ret <= j)
              /\ \A i \in ValidInodes(itable') \ ValidInodes(itable) :
                    \A j \in free : i <= j
              /\ free = {} => /\ last'.ret = -1 /\ ~last'.raised
                              /\ <<image, engine>>' = <<image, engine>>]_vars

\* A create_file took slot 1, freed by remove_file, while slot 2 was in use
\* and slot 3 was free.
C32_Witness ==
    /\ last.op = "create_file" /\ last.ret = 1
    /\ itable[2].valid = 1 /\ itable[3].valid = 0
    /\ Len(RawRecords(itable, data, 0)) = 3

\* The inode table is full and a create_file of a name not yet used failed.
C32_WitnessFull ==
    /\ last.op = "create_file" /\ last.ret = -1
    /\ \A i \in DOMAIN itable : itable[i].valid = 1
    /\ ~RawNamed(itable, data, current_dir_inode, last.name)

\* ------------------------------------------------------------------------
\* Direct calls of _get_block_pointer and _set_block_pointer on the inodes of
\* a formatted and mounted device, between create_file and write calls that
\* give the inodes direct and indirect blocks and fill the device.
\* ------------------------------------------------------------------------
PointerInodes == {0, 1}
PointerIndexes ==
    {0, POINTERS_PER_INODE - 1, POINTERS_PER_INODE, POINTERS_PER_INODE + 1,
     POINTERS_PER_INODE + POINTERS_PER_BLOCK - 1, POINTERS_PER_INODE + POINTERS_PER_BLOCK}
PointerShapes == {<<0, BLOCK_SIZE + 1>>, <<POINTERS_PER_INODE * BLOCK_SIZE - 1, 2>>}

\* _get_block_pointer(inode, block_index) on the inode loaded from slot i.
GetBlockPointerCall(i, block_index) ==
    /\ Step
    /\ mounted
    /\ UNCHANGED <<image, engine>>
    /\ last' = HelperCall("_get_block_pointer", <<i, block_index>>,
                          GetBlockPointer(data, itable[i], block_index))

\* _set_block_pointer(inode, block_index, block_num) on the inode loaded from
\* slot i; the inode object the call worked on is kept in the record, the
\* caller has not saved it.
SetBlockPointerCall(i, block_index, block_num) ==
    /\ Step
    /\ mounted
    /\ LET s == SetBlockPointer(free_blocks, data, itable[i], block_index, block_num)
       IN  /\ data' = s.data
           /\ free_blocks' = s.free
           /\ last' = [op |-> "_set_block_pointer", args |-> <<i, block_index, block_num>>,
                       ret |-> s.ok, raised |-> s.raised, inode |-> s.inode]
    /\ UNCHANGED <<disk_sb, itable, disk_bound, mounted, superblock, current_dir_inode>>

NextPointers ==
    \/ CreateFile(NameA)
    \/ \E sh \in PointerShapes : Write(1, DataFor(sh[1], sh[2]), sh[1])
    \/ \E i \in PointerInodes, k \in PointerIndexes : GetBlockPointerCall(i, k)
    \/ \E i \in PointerInodes, k \in PointerIndexes : SetBlockPointerCall(i, k, nblocks - 1)

SpecPointers == InitMounted /\ [][NextPointers]_vars

\* C33: _get_block_pointer(inode, idx) returns direct[idx] below
\* POINTERS_PER_INODE; beyond it, 0 when the inode has no indirect block or
\* when idx - POINTERS_PER_INODE is not a slot of the indirect block, and
\* otherwise the number stored in that slot of the indirect block; the call
\* changes neither the image nor the engine.
C33_GetBlockPointer ==
    [][last'.op = "_get_block_pointer" =>
          LET inode == itable[last'.args[1]]
              idx == last'.args[2]
              slot == idx - POINTERS_PER_INODE
          IN  /\ <<image, engine>>' = <<image, engine>>
              /\ last'.ret =
                    IF idx < POINTERS_PER_INODE THEN inode.direct[idx + 1]
                    ELSE IF inode.indirect = 0 THEN 0
                    ELSE IF slot >= POINTERS_PER_BLOCK THEN 0
                    ELSE UnpackU32(SubSeq(data[inode.indirect], slot * U32_BYTES + 1,
                                          (slot + 1) * U32_BYTES))]_vars

\* The call returned the pointer of the second slot of an indirect block.
C33_Witness ==
    /\ last.op = "_get_block_pointer"
    /\ last.args[2] = POINTERS_PER_INODE + 1
    /\ last.ret # 0
    /\ itable[last.args[1]].indirect # 0
    /\ GetBlockPointer(data, itable[last.args[1]], POINTERS_PER_INODE) # last.ret

\* What _set_block_pointer does to an indirect slot: the inode object after
\* holds the indirect block ind, whose pointers are those of before with
\* block_num in the slot; no other block changed, and _get_block_pointer finds
\* block_num under the index.
SlotStored(inode, after, ind, before, idx, block_num) ==
    /\ after = [inode EXCEPT !.indirect = ind]
    /\ Pointers(data'[ind]) =
          [Pointers(before) EXCEPT ![idx - POINTERS_PER_INODE + 1] = block_num]
    /\ \A b \in DOMAIN data : b # ind => data'[b] = data[b]
    /\ GetBlockPointer(data', after, idx) = block_num

\* C34 as stated: _set_block_pointer(inode, idx, b) stores b in direct[idx]
\* below POINTERS_PER_INODE; for the POINTERS_PER_BLOCK indexes after that it
\* succeeds, having allocated the indirect block with every slot zero when the
\* inode had none, stored b in its slot and left the other slots alone, so
\* that _get_block_pointer(inode, idx) returns b; beyond that it fails.
C34_SetBlockPointerAlways ==
    [][last'.op = "_set_block_pointer" =>
          LET inode == itable[last'.args[1]]
              idx == last'.args[2]
              after == last'.inode
          IN  IF idx < POINTERS_PER_INODE
              THEN /\ last'.ret
                   /\ after = [inode EXCEPT !.direct[idx + 1] = last'.args[3]]
                   /\ data' = data /\ free_blocks' = free_blocks
              ELSE IF idx - POINTERS_PER_INODE < POINTERS_PER_BLOCK
              THEN /\ last'.ret
                   /\ IF inode.indirect # 0
                      THEN /\ free_blocks' = free_blocks
                           /\ SlotStored(inode, after, inode.indirect,
                                         data[inode.indirect], idx, last'.args[3])
                      ELSE /\ after.indirect > superblock.inode_blocks
                           /\ free_blocks[after.indirect + 1]
                           /\ free_blocks' = [free_blocks EXCEPT ![after.indirect + 1] = FALSE]
                           /\ SlotStored(inode, after, after.indirect, ZeroBlock,
                                         idx, last'.args[3])
              ELSE ~last'.ret]_vars

\* C34, with the device full: the same, except that for an inode without an
\* indirect block on a device without a free data block the call fails for
\* every index from POINTERS_PER_INODE on, storing nothing and changing
\* neither a block nor the map.
C34_SetBlockPointer ==
    [][last'.op = "_set_block_pointer" =>
          LET inode == itable[last'.args[1]]
              idx == last'.args[2]
              after == last'.inode
              full == \A b \in (superblock.inode_blocks + 1)..(superblock.blocks - 1) :
                          ~free_blocks[b + 1]
          IN  IF idx < POINTERS_PER_INODE
              THEN /\ last'.ret
                   /\ after = [inode EXCEPT !.direct[idx + 1] = last'.args[3]]
                   /\ data' = data /\ free_blocks' = free_blocks
              ELSE IF inode.indirect = 0 /\ full
              THEN /\ ~last'.ret
                   /\ after.direct = inode.direct
                   /\ data' = data /\ free_blocks' = free_blocks
              ELSE IF idx - POINTERS_PER_INODE < POINTERS_PER_BLOCK
              THEN /\ last'.ret
                   /\ IF inode.indirect # 0
                      THEN /\ free_blocks' = free_blocks
                           /\ SlotStored(inode, after, inode.indirect,
                                         data[inode.indirect], idx, last'.args[3])
                      ELSE /\ after.indirect > superblock.inode_blocks
                           /\ free_blocks[after.indirect + 1]
                           /\ free_blocks' = [free_blocks EXCEPT ![after.indirect + 1] = FALSE]
                           /\ SlotStored(inode, after, after.indirect, ZeroBlock,
                                         idx, last'.args[3])
              ELSE ~last'.ret]_vars

\* The call stored a pointer in the second slot of an indirect block whose
\* first slot was in use and still is.
C34_Witness ==
    /\ last.op = "_set_block_pointer" /\ last.ret
    /\ last.args[2] = POINTERS_PER_INODE + 1
    /\ itable[last.args[1]].indirect # 0
    /\ last.inode.indirect = itable[last.args[1]].indirect
    /\ Pointers(data[last.inode.indirect])[1] # 0
    /\ Pointers(data[last.inode.indirect])[2] = last.args[3]

\* The positions of inode i below its size and outside [o, o + n).
Outside(i, o, n) == {p \in 0..(itable[i].size - 1) : p < o \/ p >= o + n}

\* Every other valid inode reads as before the step.
OthersKept(i) ==
    \A j \in ValidInodes(itable) \ {i} :
        ReadFile(itable', data', j, MAX_FILE_SIZE, 0) = ReadFile(itable, data, j, MAX_FILE_SIZE, 0)

\* C35 as stated: after a write(i, data, o) that returns len(data), read
\* returns for every position below the previous size and outside
\* [o, o + len(data)) what it returned before the write, and every other
\* inode reads as before.
C35_WriteFrameAllPositions ==
    [][(/\ mounted /\ last'.op = "write" /\ ~last'.raised
        /\ InodeLive(superblock, itable, last'.inode)
        /\ last'.ret = Len(last'.data))
       => /\ \A p \in Outside(last'.inode, last'.offset, last'.ret) :
                ReadFile(itable', data', last'.inode, 1, p)
                    = ReadFile(itable, data, last'.inode, 1, p)
          /\ OthersKept(last'.inode)]_vars

\* C35, holes apart: the same for the positions that lie in a block the inode
\* had before the write; a position of a hole, where read returned nothing,
\* is left out.
C35_WriteFrame ==
    [][(/\ mounted /\ last'.op = "write" /\ ~last'.raised
        /\ InodeLive(superblock, itable, last'.inode)
        /\ last'.ret = Len(last'.data))
       => /\ \A p \in Outside(last'.inode, last'.offset, last'.ret) :
                GetBlockPointer(data, itable[last'.inode], p \div BLOCK_SIZE) # 0
                => ReadFile(itable', data', last'.inode, 1, p)
                       = ReadFile(itable, data, last'.inode, 1, p)
          /\ OthersKept(last'.inode)]_vars

\* Two bytes were written inside the first block of a file of two blocks; the
\* bytes before and after them in that block and the second block are as the
\* first write left them, and another inode has content.
C35_Witness ==
    /\ mounted /\ last.op = "write" /\ last.ret = 2 /\ last.offset = 3
    /\ InodeLive(superblock, itable, last.inode)
    /\ ReadFile(itable, data, last.inode, MAX_FILE_SIZE, 0).bytes
           = Splice(DataFor(0, BLOCK_SIZE + 1), 3, DataFor(3, 2))
    /\ \E j \in ValidInodes(itable) \ {last.inode} : itable[j].size > 0

\* ------------------------------------------------------------------------
\* Direct calls of _find_dir_entry on a formatted and mounted device, between
\* create_file, mkdir and remove_file calls.  Two of the names are longer
\* than MAX_FILENAME and are stored under the same truncated name; one name
\* ends with a zero byte.
\* ------------------------------------------------------------------------
FindNames == {<<97, 98, 99>>, <<97, 98, 100>>, <<97, 98>>, NameA, <<97, 0>>, DOT}

\* _find_dir_entry(dir_inode_num, name)
FindDirEntryCall(dir_inode_num, name) ==
    /\ Step
    /\ mounted
    /\ UNCHANGED <<image, engine>>
    /\ last' = HelperCall("_find_dir_entry", <<dir_inode_num, name>>,
                          FindDirEntry(itable, data, dir_inode_num, name))

NextFind ==
    \/ \E name \in FindNames \ {DOT} : CreateFile(name)
    \/ Mkdir(NameA)
    \/ \E i \in {1, 2} : RemoveFile(i)
    \/ \E d \in {0, 1, 2}, name \in FindNames : FindDirEntryCall(d, name)

SpecFind == InitMounted /\ [][NextFind]_vars

\* C36: _find_dir_entry(dir, name) returns the inode number of the record of
\* lowest offset in dir's byte stream that carries the name, valid or not, and
\* -1 when no record carries it or dir is empty or not valid; the call changes
\* neither the image nor the engine.
C36_FindFirstRecord ==
    [][last'.op = "_find_dir_entry" =>
          LET recs == RawRecords(itable, data, last'.args[1])
              name == last'.args[2]
              hits == {k \in 1..Len(recs) : recs[k].name = name}
          IN  /\ <<image, engine>>' = <<image, engine>>
              /\ IF hits = {} THEN last'.ret = -1
                 ELSE \E k \in hits : /\ \A j \in hits : k <= j
                                      /\ last'.ret = recs[k].inode_num]_vars

\* The call returned the inode of the first of two records of the same name,
\* an inode that is no longer valid, while the second record's inode is valid.
C36_Witness ==
    /\ last.op = "_find_dir_entry" /\ last.ret > 0
    /\ itable[last.ret].valid = 0
    /\ LET recs == RawRecords(itable, data, last.args[1])
       IN  /\ Len(recs) >= 2
           /\ recs[1].name = last.args[2] /\ recs[1].inode_num = last.ret
           /\ recs[2].name = last.args[2] /\ recs[2].inode_num # last.ret
           /\ itable[recs[2].inode_num].valid = 1

\* The byte stream of directory d is kept by the step: d is as large as
\* before or larger and its first bytes read as before.
StreamKept(d) ==
    /\ itable'[d].size >= itable[d].size
    /\ ReadFile(itable', data', d, itable[d].size, 0)
           = ReadFile(itable, data, d, itable[d].size, 0)

\* The step appended the record of name and inode_num to directory d.
RecordAppended(d, name, inode_num) ==
    /\ itable'[d].size = itable[d].size + ENTRY_SIZE
    /\ ReadFile(itable', data', d, ENTRY_SIZE, itable[d].size).bytes
           = DirEntryPack(name, inode_num)

\* C37: a create_file or mkdir that returns an inode number has appended one
\* record, that of the name and the inode, at the previous end of the current
\* directory; and every create_file, mkdir and remove_file keeps the byte
\* stream of every directory that is valid before and after it.
C37_AppendOnly ==
    [][(mounted /\ last'.op \in {"create_file", "mkdir", "remove_file"}) =>
          /\ (last'.op # "remove_file" /\ last'.ret >= 0 /\ ~last'.raised)
                => RecordAppended(current_dir_inode, last'.name, last'.ret)
          /\ \A d \in DOMAIN itable :
                (IsDir(itable, d) /\ IsDir(itable', d)) => StreamKept(d)]_vars

\* C37 for a current directory that is a valid directory when the call is
\* made.
C37_AppendOnlyValidTarget ==
    [][(/\ mounted /\ last'.op \in {"create_file", "mkdir", "remove_file"}
        /\ IsDir(itable, current_dir_inode)) =>
          /\ (last'.op # "remove_file" /\ last'.ret >= 0 /\ ~last'.raised)
                => RecordAppended(current_dir_inode, last'.name, last'.ret)
          /\ \A d \in DOMAIN itable :
                (IsDir(itable, d) /\ IsDir(itable', d)) => StreamKept(d)]_vars

\* No two records of directory d carry the same name.
NoDuplicateNames(it, dt, d) ==
    \A j, k \in 1..Len(RawRecords(it, dt, d)) :
        RawRecords(it, dt, d)[j].name = RawRecords(it, dt, d)[k].name => j = k

\* C38: a create_file or mkdir of a name of at most MAX_FILENAME bytes in a
\* current directory without two records of one name leaves it without two
\* records of one name.
C38_NoDuplicateNames ==
    [][(/\ mounted /\ last'.op \in {"create_file", "mkdir"}
        /\ Len(last'.name) <= MAX_FILENAME
        /\ IsDir(itable, current_dir_inode) /\ IsDir(itable', current_dir_inode)
        /\ NoDuplicateNames(itable, data, current_dir_inode))
       => NoDuplicateNames(itable', data', current_dir_inode)]_vars

\* C38 for the names in which no byte is zero.
C38_NoDuplicatePlainNames ==
    [][(/\ mounted /\ last'.op \in {"create_file", "mkdir"}
        /\ Len(last'.name) <= MAX_FILENAME
        /\ \A k \in 1..Len(last'.name) : last'.name[k] # 0
        /\ IsDir(itable, current_dir_inode) /\ IsDir(itable', current_dir_inode)
        /\ NoDuplicateNames(itable, data, current_dir_inode))
       => NoDuplicateNames(itable', data', current_dir_inode)]_vars

\* C39: the mount that follows a successful format leaves inode 0 valid, of
\* type DIR and of size 0, every other inode slot free, every data block free
\* and the root without entries: ls in the root lists nothing and neither
\* "." nor ".." resolves there, whatever the device held before the format.
C39_FreshAfterFormat ==
    [][(last.op = "format" /\ last.ret = 1 /\ last'.op = "mount") =>
          /\ last'.ret = 1
          /\ mounted'
          /\ current_dir_inode' = 0
          /\ superblock' = superblock
          /\ itable'[0].valid = 1
          /\ itable'[0].inode_type = TYPE_DIR
          /\ itable'[0].size = 0
          /\ \A i \in DOMAIN itable' : i # 0 => itable'[i].valid = 0
          /\ \A b \in 1..Len(free_blocks') :
                free_blocks'[b] = (b - 1 > superblock.inode_blocks)
          /\ LsOf(itable', data', 0) = <<>>
          /\ FindDirEntry(itable', data', 0, DOT) = -1
          /\ FindDirEntry(itable', data', 0, DOTDOT) = -1
          /\ CdTarget(itable', data', 0, DOTDOT) = -1]_vars

\* A freshly formatted and mounted device whose data blocks still hold the
\* bytes of the file system it held before the format.
C39_Witness ==
    /\ mounted
    /\ last.op = "mount"
    /\ last.ret = 1
    /\ itable[0].size = 0
    /\ \A i \in DOMAIN itable : i # 0 => itable[i].valid = 0
    /\ \E b \in DOMAIN data : b > superblock.inode_blocks /\ data[b] # ZeroBlock

\* ------------------------------------------------- the polling GUI observer
\* get_visualization_data on a mounted engine: the category of every block,
\* in place of the four lists of block numbers ("none" for a block past the
\* end of the free map, which is in no list).
GetVisualizationData(sb, free) ==
    [b \in 1..sb.blocks |->
        IF b = 1 THEN "superblock"
        ELSE IF b - 1 <= sb.inode_blocks THEN "inode"
        ELSE IF b - 1 >= Len(free) THEN "none"
        ELSE IF free[b] THEN "free" ELSE "used"]

\* The main thread is inside write, after the first _allocate_block of the
\* loop and before _set_block_pointer; last.ret holds the block it marked.
WriteInProgress == last.op = "write_allocated"

\* write(inode_num, data, offset) up to the return of the first
\* _allocate_block: the inode is valid, the first position has no block and
\* a data block is free.
WriteAllocateBlock(inode_num, d, offset) ==
    /\ Step
    /\ ~WriteInProgress
    /\ mounted
    /\ InodeLive(superblock, itable, inode_num)
    /\ Len(d) > 0
    /\ GetBlockPointer(data, itable[inode_num], offset \div BLOCK_SIZE) = 0
    /\ AllocateBlock(superblock, free_blocks).blk >= 0
    /\ free_blocks' = AllocateBlock(superblock, free_blocks).free
    /\ UNCHANGED <<image, disk_bound, mounted, superblock, current_dir_inode>>
    /\ last' = [NoLast EXCEPT !.op = "write_allocated", !.inode = inode_num, !.data = d,
                              !.offset = offset,
                              !.ret = AllocateBlock(superblock, free_blocks).blk]

\* What the rest of that write leaves.  The loop takes the lowest free block,
\* so it is what write leaves on the map as it was before the block was marked.
WriteResumed ==
    WriteFile([itable |-> itable, data |-> data,
               free |-> FreeBlock(free_blocks, last.ret)],
              last.inode, last.data, last.offset)

\* The rest of that write.
WriteResume ==
    /\ WriteInProgress
    /\ UNCHANGED <<nblocks, nops>>
    /\ DoneReturned(WriteResumed,
                    [NoLast EXCEPT !.op = "write", !.inode = last.inode,
                                   !.data = last.data, !.offset = last.offset])

\* update_visualization on the GUI thread, at any point of the main thread:
\* last.out holds the data it read since the main thread's latest step.
UpdateVisualization ==
    /\ mounted
    /\ superblock.blocks # 0
    /\ last' = [last EXCEPT !.out = GetVisualizationData(superblock, free_blocks)]
    /\ UNCHANGED <<nblocks, nops, image, engine>>

\* One file written by the main thread while the GUI thread polls.
NextObserver ==
    \/ ~WriteInProgress /\ CreateFile(NameA)
    \/ ~WriteInProgress /\ RemoveFile(1)
    \/ ~WriteInProgress /\ \E sh \in WriteShapes : Write(1, DataFor(sh[1], sh[2]), sh[1])
    \/ \E sh \in WriteShapes : WriteAllocateBlock(1, DataFor(sh[1], sh[2]), sh[1])
    \/ WriteResume
    \/ UpdateVisualization

SpecObserver == InitMounted /\ [][NextObserver]_vars

\* C40: the data the GUI thread read is the allocation state left by a
\* completed operation: the one the main thread completed last or, when the
\* main thread is inside write, that or the one that write leaves.
C40_ObserverSeesCompletedStates ==
    (mounted /\ last.out # <<>>) =>
        IF WriteInProgress
        THEN \/ last.out = GetVisualizationData(superblock,
                                                FreeBlock(free_blocks, last.ret))
             \/ last.out = GetVisualizationData(superblock, WriteResumed.free)
        ELSE last.out = GetVisualizationData(superblock, free_blocks)

\* The GUI thread's read changes neither the image nor the engine.
C40_ObserverReadsOnly ==
    [][last'.out # last.out /\ last'.op = last.op /\ nops' = nops
          => UNCHANGED <<image, engine>>]_vars
====
